---------------------------- MODULE Spec2Model ----------------------------
(***************************************************************************)
(* mediaRenamerToTimestamp: renaming media files to the timestamp found in *)
(* their metadata.  The module models                                      *)
(*   - the sequential pipeline (src/main.go:348-734, and its earlier form  *)
(*     src/unnamed/part_000:1-350): backup snapshot, enumeration,          *)
(*     processFile / renameWithCollision, backup decision;                 *)
(*   - the worker-pool pipeline (src/main.go:1-346);                       *)
(*   - the QuickTime atom walker getVideoCreationTimeMetadata.             *)
(*                                                                         *)
(* Strings are sequences of tokens.  A token stands for a run of           *)
(* characters that no operation of the program ever cuts: "/", "." and "-" *)
(* are tokens of their own, so Split, Ext, TrimSuffix, Join ... are        *)
(* computed on the sequence exactly as Go computes them on the bytes.      *)
(***************************************************************************)
EXTENDS Integers, Sequences, FiniteSets, TLC

(* ------------------------------------------------------------------ *)
(* Bounds of the model                                                  *)
(* ------------------------------------------------------------------ *)

\* Largest number of files in an initial tree drawn from the whole universe.
MaxFiles == 2

\* Largest number of files in an initial tree drawn from the files that
\* bear on name collisions (Alike below).
MaxAlike == 3

\* colisionMax is 1000000 in src/main.go:377; the model scales it down so
\* that the collision loop can be exhausted: suffixes 1 .. colisionMax-1.
colisionMax == 3

\* Number of times the program is run on the same tree.
MaxRuns == 2

(* ------------------------------------------------------------------ *)
(* Strings                                                              *)
(* ------------------------------------------------------------------ *)

Sep == "/"
Dot == "."
Dash == "-"

\* Byte order of the tokens, as sort.Strings orders the names they stand
\* for.  "/" is placed lowest: comparing two paths token by token then
\* yields the order in which filepath.Walk visits them (names sorted inside
\* each directory, a directory's content before its next sibling).
Rank(t) ==
    CASE t = "/" -> 0
      [] t = " - Backup Exif" -> 1
      [] t = "-" -> 2
      [] t = "." -> 3
      [] t = "00" -> 4
      [] t = "01" -> 5
      [] t = "1" -> 6
      [] t = "2" -> 7
      [] t = "2020-01-01 00" -> 8
      [] t = "3" -> 9
      [] t = "4" -> 10
      [] t = "5" -> 11
      [] t = "BAD" -> 20
      [] t = "CLIP" -> 21
      [] t = "DSC" -> 22
      [] t = "IMG" -> 23
      [] t = "JPG" -> 24
      [] t = "Jpg" -> 25
      [] t = "MOV" -> 26
      [] t = "NOTE" -> 27
      [] t = "OLD" -> 28
      [] t = "TXT" -> 29
      [] t = "jpg" -> 40
      [] t = "mov" -> 41
      [] t = "p" -> 42
      [] t = "r" -> 43
      [] t = "sub" -> 44
      [] t = "txt" -> 45
      [] OTHER -> 60

RECURSIVE LessStr(_, _)
LessStr(a, b) ==
    IF a = <<>> THEN b # <<>>
    ELSE IF b = <<>> THEN FALSE
    ELSE IF Head(a) = Head(b) THEN LessStr(Tail(a), Tail(b))
    ELSE Rank(Head(a)) < Rank(Head(b))

\* The strings of S in increasing order (sort.Strings).
RECURSIVE SortStrs(_)
SortStrs(S) ==
    IF S = {} THEN <<>>
    ELSE LET m == CHOOSE x \in S : \A y \in S \ {x} : LessStr(x, y)
         IN  <<m>> \o SortStrs(S \ {m})

\* strings.ToUpper / strings.ToLower, token by token.
UpperTok(t) ==
    CASE t \in {"jpg", "Jpg", "JPG"} -> "JPG"
      [] t \in {"mov", "MOV"} -> "MOV"
      [] t \in {"txt", "TXT"} -> "TXT"
      [] t = "p" -> "P"
      [] t = "r" -> "R"
      [] t = "sub" -> "SUB"
      [] OTHER -> t

LowerTok(t) ==
    CASE t \in {"jpg", "Jpg", "JPG"} -> "jpg"
      [] t \in {"mov", "MOV"} -> "mov"
      [] t \in {"txt", "TXT"} -> "txt"
      [] t = "IMG" -> "img"
      [] t = "DSC" -> "dsc"
      [] t = "CLIP" -> "clip"
      [] t = "BAD" -> "bad"
      [] t = "NOTE" -> "note"
      [] t = "OLD" -> "old"
      [] OTHER -> t

ToUpper(s) == [i \in 1..Len(s) |-> UpperTok(s[i])]
ToLower(s) == [i \in 1..Len(s) |-> LowerTok(s[i])]

HasPrefix(s, p) == Len(p) <= Len(s) /\ SubSeq(s, 1, Len(p)) = p
HasSuffix(s, p) == Len(p) <= Len(s) /\ SubSeq(s, Len(s) - Len(p) + 1, Len(s)) = p
TrimPrefix(s, p) == IF HasPrefix(s, p) THEN SubSeq(s, Len(p) + 1, Len(s)) ELSE s
TrimSuffix(s, p) == IF HasSuffix(s, p) THEN SubSeq(s, 1, Len(s) - Len(p)) ELSE s

\* Index of the last token t of s, 0 when s holds none (strings.LastIndex).
LastIndex(s, t) ==
    LET I == {i \in 1..Len(s) : s[i] = t}
    IN  IF I = {} THEN 0 ELSE CHOOSE i \in I : \A j \in I : j <= i

\* strings.Split(s, t): the pieces of s between the tokens t.
RECURSIVE Split(_, _)
Split(s, t) ==
    LET I == {i \in 1..Len(s) : s[i] = t}
    IN  IF I = {} THEN <<s>>
        ELSE LET i == CHOOSE k \in I : \A j \in I : k <= j
             IN  <<SubSeq(s, 1, i - 1)>> \o Split(SubSeq(s, i + 1, Len(s)), t)

\* strings.ReplaceAll(s, old, new) for a non-empty old: the occurrences of
\* old, found from the left and not overlapping, replaced by new.
RECURSIVE ReplaceAll(_, _, _)
ReplaceAll(s, old, new) ==
    IF Len(s) < Len(old) \/ old = <<>> THEN s
    ELSE IF HasPrefix(s, old)
         THEN new \o ReplaceAll(SubSeq(s, Len(old) + 1, Len(s)), old, new)
         ELSE <<Head(s)>> \o ReplaceAll(Tail(s), old, new)

(* ------------------------------------------------------------------ *)
(* Paths (path/filepath on a slash-separated system)                    *)
(* ------------------------------------------------------------------ *)

\* The elements of a path: its pieces between slashes, without the empty
\* ones and without the "." elements.
Elements(path) ==
    SelectSeq(Split(path, Sep), LAMBDA e : e # <<>> /\ e # <<Dot>>)

RECURSIVE JoinElements(_)
JoinElements(es) ==
    IF es = <<>> THEN <<>>
    ELSE IF Len(es) = 1 THEN es[1]
    ELSE es[1] \o <<Sep>> \o JoinElements(Tail(es))

\* The ".." element.
DotDot == <<Dot, Dot>>

\* The elements es with each ".." element and the element before it taken
\* out, into acc; a ".." with nothing before it is dropped in a rooted
\* path and kept in another.
RECURSIVE Resolve(_, _, _)
Resolve(es, acc, rooted) ==
    IF es = <<>> THEN acc
    ELSE IF Head(es) # DotDot THEN Resolve(Tail(es), Append(acc, Head(es)), rooted)
    ELSE IF acc # <<>> /\ acc[Len(acc)] # DotDot
         THEN Resolve(Tail(es), SubSeq(acc, 1, Len(acc) - 1), rooted)
    ELSE IF rooted THEN Resolve(Tail(es), acc, rooted)
    ELSE Resolve(Tail(es), Append(acc, DotDot), rooted)

\* The elements of the shortest path equivalent to path by lexical
\* processing.
CleanElements(path) ==
    LET es == Elements(path)
    IN  IF \E i \in 1..Len(es) : es[i] = DotDot
        THEN Resolve(es, <<>>, path # <<>> /\ Head(path) = Sep)
        ELSE es

\* filepath.Clean.
Clean(path) ==
    IF path = <<>> THEN <<Dot>>
    ELSE IF Head(path) = Sep THEN <<Sep>> \o JoinElements(CleanElements(path))
    ELSE IF CleanElements(path) = <<>> THEN <<Dot>>
    ELSE JoinElements(CleanElements(path))

\* filepath.Abs of a path that is absolute already is its Clean.
Abs(path) == Clean(path)

\* filepath.Dir: all but the last element, cleaned.  The last element of a
\* path ending in a slash is empty.
Dir(path) == Clean(SubSeq(path, 1, LastIndex(path, Sep)))

RECURSIVE StripSlashes(_)
StripSlashes(path) ==
    IF path # <<>> /\ path[Len(path)] = Sep
    THEN StripSlashes(SubSeq(path, 1, Len(path) - 1))
    ELSE path

\* filepath.Base: the last element, trailing slashes removed first.
Base(path) ==
    IF path = <<>> THEN <<Dot>>
    ELSE LET p == StripSlashes(path)
         IN  IF p = <<>> THEN <<Sep>>
             ELSE SubSeq(p, LastIndex(p, Sep) + 1, Len(p))

\* filepath.Ext: the suffix of the last element from its last dot on.
Ext(path) ==
    LET i == LastIndex(path, Dot)
    IN  IF i = 0 \/ i < LastIndex(path, Sep) THEN <<>>
        ELSE SubSeq(path, i, Len(path))

\* filepath.Join of two elements: empty elements are dropped, the rest is
\* joined by a slash and cleaned.
Join(a, b) ==
    IF a = <<>> /\ b = <<>> THEN <<>>
    ELSE IF a = <<>> THEN Clean(b)
    ELSE IF b = <<>> THEN Clean(a)
    ELSE Clean(a \o <<Sep>> \o b)

\* filepath.Rel(base, targ) for a targ at or below base.
Rel(base, targ) ==
    LET b == Clean(base)
        t == Clean(targ)
    IN  IF t = b THEN <<Dot>>
        ELSE IF b = <<Sep>> THEN Tail(t)
        ELSE SubSeq(t, Len(b) + 2, Len(t))

(* ------------------------------------------------------------------ *)
(* The filesystem                                                       *)
(* ------------------------------------------------------------------ *)

\* A filesystem is a function from clean absolute paths to entries: a
\* directory, or a file with its content and its permission bits.
DirEntry == [kind |-> "dir", c |-> "", perm |-> {}]
FileEntry(c, perm) == [kind |-> "file", c |-> c, perm |-> perm]

\* Permission bits: 0644 and 0666.
Perm644 == {"ur", "uw", "gr", "or"}
Perm666 == {"ur", "uw", "gr", "gw", "or", "ow"}
\* The umask of the process: 022.
Umask022 == {"gw", "ow"}

\* extensions.DoesFileExist: os.Stat finds the path.
DoesFileExist(f, path) == Clean(path) \in DOMAIN f

IsDir(f, path) == DoesFileExist(f, path) /\ f[Clean(path)].kind = "dir"
IsFile(f, path) == DoesFileExist(f, path) /\ f[Clean(path)].kind = "file"

\* q is dir itself or lies below it.
IsUnder(q, dir) ==
    \/ q = dir
    \/ IF dir = <<Sep>> THEN HasPrefix(q, dir) ELSE HasPrefix(q, dir \o <<Sep>>)

\* The names in a directory, sorted (readDirNames of filepath.Walk).
ReadDirNames(f, dir) ==
    SortStrs({Base(q) : q \in {x \in DOMAIN f : x # Clean(dir) /\ Dir(x) = Clean(dir)}})

\* The prefixes of a clean absolute path that are paths themselves.
Ancestors(path) ==
    {SubSeq(path, 1, i - 1) : i \in {j \in 2..Len(path) : path[j] = Sep}} \ {<<>>}

\* os.MkdirAll: the path and its missing parents become directories; it
\* fails when a file is in the way.
MkdirAll(f, path) ==
    LET p == Clean(path)
        need == (Ancestors(p) \cup {p}) \ {<<Sep>>}
    IN  IF \E q \in need : q \in DOMAIN f /\ f[q].kind = "file"
        THEN [ok |-> FALSE, fs |-> f]
        ELSE [ok |-> TRUE,
              fs |-> [q \in DOMAIN f \cup need |->
                        IF q \in DOMAIN f THEN f[q] ELSE DirEntry]]

\* os.WriteFile(path, data, mode): an existing file is truncated and keeps
\* its permission bits (it must be writable); a new file gets mode minus
\* the umask.  It fails on a directory and in a missing directory.
WriteFile(f, um, path, data, mode) ==
    LET p == Clean(path)
    IN  IF p \in DOMAIN f
        THEN IF f[p].kind = "dir" \/ "uw" \notin f[p].perm
             THEN [ok |-> FALSE, fs |-> f]
             ELSE [ok |-> TRUE, fs |-> [f EXCEPT ![p].c = data]]
        ELSE IF ~IsDir(f, Dir(p))
             THEN [ok |-> FALSE, fs |-> f]
             ELSE [ok |-> TRUE,
                   fs |-> [q \in DOMAIN f \cup {p} |->
                             IF q = p THEN FileEntry(data, mode \ um) ELSE f[q]]]

\* os.Rename of a file: "If newpath already exists and is not a directory,
\* Rename replaces it."  It fails when the source is missing, when the
\* target is a directory or when the target's directory is missing.
Rename(f, old, new) ==
    LET o == Clean(old)
        n == Clean(new)
    IN  IF o \notin DOMAIN f \/ IsDir(f, n) \/ ~IsDir(f, Dir(n))
        THEN [ok |-> FALSE, fs |-> f]
        ELSE IF o = n THEN [ok |-> TRUE, fs |-> f]
        ELSE [ok |-> TRUE,
              fs |-> [q \in (DOMAIN f \ {o}) \cup {n} |->
                        IF q = n THEN f[o] ELSE f[q]]]

\* os.RemoveAll: the path and everything below it.
RemoveAll(f, path) ==
    [q \in {x \in DOMAIN f : ~IsUnder(x, Clean(path))} |-> f[q]]

\* The files at or below dir, in the order filepath.Walk visits them.
WalkFiles(f, dir) ==
    SortStrs({q \in DOMAIN f : f[q].kind = "file" /\ IsUnder(q, Clean(dir))})

(* ------------------------------------------------------------------ *)
(* Configuration                                                        *)
(* ------------------------------------------------------------------ *)

pictureExtensions ==
    {<<"JPG">>, <<"TIF">>, <<"BMP">>, <<"PNG">>, <<"JPEG">>, <<"GIF">>,
     <<"CR2">>, <<"ARW">>, <<"HEIC">>, <<"NEF">>}
movieExtensions == {<<"MOV">>, <<"MP4">>}
backupSuffix == <<" - Backup Exif">>

inArray(value, array) == value \in array

(* ------------------------------------------------------------------ *)
(* Time                                                                 *)
(* ------------------------------------------------------------------ *)

\* The instants of the model: seconds after 2020-01-01 00:00:00.
Times == {0, 1}

SecondsTok(t) == IF t = 0 THEN "00" ELSE "01"

\* time.Time.Format(fmtDesired) for fmtDesired = "2006-01-02 15.04.05".
Format(t) == <<"2020-01-01 00", Dot, "00", Dot, SecondsTok(t)>>

\* time.Parse(fmtDesired, s): the strings the layout accepts.
ParseDesired(s) ==
    IF \E t \in Times : s = Format(t)
    THEN [ok |-> TRUE, t |-> CHOOSE t \in Times : s = Format(t)]
    ELSE [ok |-> FALSE, t |-> 0]

\* The layout fmtDesired is initialised with, "2006-01-02 15.04.05".
DefaultLayout == <<"2006-01-02 15", Dot, "04", Dot, "05">>

\* time.Time.Format(layout): the parts of the reference time are replaced
\* by those of the instant, every other text is copied.
FormatLayout(layout, t) ==
    [i \in 1..Len(layout) |->
        CASE layout[i] = "2006-01-02 15" -> "2020-01-01 00"
          [] layout[i] = "04" -> "00"
          [] layout[i] = "05" -> SecondsTok(t)
          [] OTHER -> layout[i]]

\* time.Parse(layout, s): the strings the layout accepts.
ParseLayout(layout, s) ==
    IF \E t \in Times : s = FormatLayout(layout, t)
    THEN [ok |-> TRUE, t |-> CHOOSE t \in Times : s = FormatLayout(layout, t)]
    ELSE [ok |-> FALSE, t |-> 0]

\* time.Parse("2006:01:02 15:04:05", s) on the value of an EXIF field.
ParseExif(s) ==
    CASE s = "2020:01:01 00:00:00" -> [ok |-> TRUE, t |-> 0]
      [] s = "2020:01:01 00:00:01" -> [ok |-> TRUE, t |-> 1]
      [] OTHER -> [ok |-> FALSE, t |-> 0]

(* ------------------------------------------------------------------ *)
(* File contents                                                        *)
(* ------------------------------------------------------------------ *)

\* The content of a file is what the program reads from it: the EXIF tag
\* map the decoder yields (exif, for kind "exif"; kind "noexif" makes
\* exif.Decode fail) or the outcome of the atom walker on its bytes
\* (video).  A tag value is a string or, isString FALSE, another JSON type.
Str(s) == [isString |-> TRUE, s |-> s]
NonString == [isString |-> FALSE, s |-> ""]
NoTags == [x \in {} |-> Str("")]
Tags1(k, v) == [x \in {k} |-> v]
Tags2(v, w) == [x \in {"DateTimeOriginal", "DateTime"} |->
                  IF x = "DateTimeOriginal" THEN v ELSE w]
NoVideo == [ok |-> FALSE, t |-> 0]
Picture(id, tags) == [id |-> id, kind |-> "exif", exif |-> tags, video |-> NoVideo]
Undecodable(id) == [id |-> id, kind |-> "noexif", exif |-> NoTags, video |-> NoVideo]
Movie(id, res) == [id |-> id, kind |-> "video", exif |-> NoTags, video |-> res]

E0 == "2020:01:01 00:00:00"
E1 == "2020:01:01 00:00:01"

\* The tree the program is started on: /p/r, with a sub-directory.
Parent == <<Sep, "p">>
Root == <<Sep, "p", Sep, "r">>
SubDir == <<"sub">>

\* The files an initial tree is drawn from, by their path below the root.
Universe ==
    { [rel |-> <<"IMG", Dot, "jpg">>, c |-> Picture("A", Tags1("DateTimeOriginal", Str(E0)))],
      [rel |-> <<"DSC", Dot, "JPG">>, c |-> Picture("B", Tags1("DateTime", Str(E0)))],
      [rel |-> <<"DSC", Dot, "jpg">>, c |-> Picture("C", Tags2(Str(E0), Str(E1)))],
      [rel |-> Format(0) \o <<Dot, "jpg">>, c |-> Picture("D", Tags1("DateTimeOriginal", Str(E0)))],
      [rel |-> Format(0) \o <<Dash, "1", Dot, "jpg">>, c |-> Picture("E", Tags1("DateTimeOriginal", Str(E0)))],
      [rel |-> Format(0) \o <<Dash, "2", Dot, "jpg">>, c |-> Picture("F", Tags1("DateTimeOriginal", Str(E0)))],
      [rel |-> Format(0) \o <<Dot, "JPG">>, c |-> Picture("G", Tags1("DateTimeOriginal", Str(E1)))],
      [rel |-> <<"CLIP", Dot, "mov">>, c |-> Movie("H", [ok |-> TRUE, t |-> 0])],
      [rel |-> <<"CLIP", Dot, "MOV">>, c |-> Movie("I", NoVideo)],
      [rel |-> <<"BAD", Dot, "jpg">>, c |-> Picture("J", NoTags)],
      [rel |-> <<"BAD", Dot, "JPG">>, c |-> Picture("K", Tags1("DateTimeOriginal", Str("garbage")))],
      [rel |-> <<"NOTE", Dot, "txt">>, c |-> Undecodable("L")],
      [rel |-> <<"IMG", Dot, "Jpg">>, c |-> Picture("M", Tags1("DateTimeOriginal", NonString))],
      [rel |-> <<"BAD", Dot, "Jpg">>, c |-> Undecodable("N")],
      [rel |-> SubDir \o <<Sep, "IMG", Dot, "jpg">>, c |-> Picture("S", Tags1("DateTimeOriginal", Str(E0)))] }

\* A media file left in the backup directory by an earlier run.
StaleName == <<"OLD", Dot, "jpg">>
StaleContent == Picture("Z", NoTags)

\* The filesystem holding the files S below the root, each with the
\* permission bits perm, and, with stale, a backup directory of an earlier
\* run at backupRoot.
MkTree(S, perm, stale, backupRoot) ==
    LET dirs == {<<Sep>>, Parent, Root}
                  \cup {Dir(Join(Root, u.rel)) : u \in S}
                  \cup (IF stale THEN {backupRoot} ELSE {})
        stales == IF stale THEN {Join(backupRoot, StaleName)} ELSE {}
        paths == {Join(Root, u.rel) : u \in S}
    IN  [q \in dirs \cup paths \cup stales |->
            IF q \in dirs THEN DirEntry
            ELSE IF q \in stales THEN FileEntry(StaleContent, Perm644)
            ELSE FileEntry((CHOOSE u \in S : Join(Root, u.rel) = q).c, perm)]

\* The files of the universe that bear on collisions: the pictures of the
\* instant 0 and, with them, one picture that cannot be decoded.
Alike == {u \in Universe : u.c.id \in {"A", "B", "C", "D", "E", "F", "S", "N"}}

\* The initial trees: at most MaxFiles files of the universe, or at most
\* MaxAlike files of Alike.
FileSets ==
    {S \in SUBSET Universe :
        \/ Cardinality(S) <= MaxFiles
        \/ S \subseteq Alike /\ Cardinality(S) <= MaxAlike}

(* ------------------------------------------------------------------ *)
(* Name resolution and processFile                                      *)
(* ------------------------------------------------------------------ *)

\* strconv.Itoa
Itoa(i) == ToString(i)

\* A collision loop that takes the suffix it is at without looking whether
\* the path exists.
collisionLoopUnprobed(f, dir, targetBase, ext, i) ==
    [ok |-> TRUE, path |-> Join(dir, targetBase \o <<Dash, Itoa(i)>> \o ext)]

\* The loop of renameWithCollision from suffix i on.
RECURSIVE collisionLoop(_, _, _, _, _)
collisionLoop(f, dir, targetBase, ext, i) ==
    IF i < colisionMax
    THEN LET candidate == Join(dir, targetBase \o <<Dash, Itoa(i)>> \o ext)
         IN  IF ~DoesFileExist(f, candidate)
             THEN [ok |-> TRUE, path |-> candidate]
             ELSE collisionLoop(f, dir, targetBase, ext, i + 1)
    ELSE [ok |-> FALSE, path |-> <<>>]

\* A name resolution that returns the unsuffixed path whether or not it
\* exists.
renameWithoutCollision(f, src, targetBase, ext) ==
    [ok |-> TRUE, path |-> Join(Dir(src), targetBase \o ext)]

\* renameWithCollision(src, targetBase, ext): the first free path among
\* dir/targetBase+ext, dir/targetBase-1+ext, ...; no available filename
\* once the suffixes below colisionMax are used up.
renameWithCollision(f, src, targetBase, ext) ==
    LET dir == Dir(src)
        candidate == Join(dir, targetBase \o ext)
    IN  IF ~DoesFileExist(f, candidate)
        THEN [ok |-> TRUE, path |-> candidate]
        ELSE collisionLoop(f, dir, targetBase, ext, 1)

\* A line of output: k is its kind, a and b what it reports.
Line(k, a, b) == [k |-> k, a |-> a, b |-> b]

\* What a call left behind: the filesystem, the lines written, and whether
\* it panicked.
Outcome(f, lines, panic) == [fs |-> f, lines |-> lines, panic |-> panic]

\* A renaming that takes a failed name resolution for the last candidate
\* of the collision loop.
renameStepPastExhaustion(f, fileWork, potentialName, extLowerDot, ioOk) ==
    LET target == renameWithCollision(f, fileWork, potentialName, extLowerDot)
        last == Join(Dir(fileWork),
                     potentialName \o <<Dash, Itoa(colisionMax - 1)>> \o extLowerDot)
        path == IF target.ok THEN target.path ELSE last
        moved == Rename(f, fileWork, path)
    IN  IF ~ioOk \/ ~moved.ok
        THEN Outcome(f, <<Line("error", fileWork, "Could not rename")>>, FALSE)
        ELSE Outcome(moved.fs, <<Line("renamed", fileWork, path)>>, FALSE)

\* The renaming at the end of both branches of processFile: resolve the
\* name, then os.Rename (ioOk: the rename meets no I/O error).
renameStep(f, fileWork, potentialName, extLowerDot, ioOk) ==
    LET target == renameWithCollision(f, fileWork, potentialName, extLowerDot)
        moved == Rename(f, fileWork, target.path)
    IN  IF ~target.ok
        THEN Outcome(f, <<Line("error", fileWork, "Could not resolve collision")>>, FALSE)
        ELSE IF ~ioOk \/ ~moved.ok
        THEN Outcome(f, <<Line("error", fileWork, "Could not rename")>>, FALSE)
        ELSE Outcome(moved.fs, <<Line("renamed", fileWork, target.path)>>, FALSE)

\* The EXIF branch of processFile on the decoded tag map.
exifTime(fields) ==
    IF "DateTimeOriginal" \in DOMAIN fields
    THEN IF ~fields["DateTimeOriginal"].isString
         THEN [res |-> "panic", t |-> 0]
         ELSE LET r == ParseExif(fields["DateTimeOriginal"].s)
              IN  [res |-> IF r.ok THEN "ok" ELSE "parse", t |-> r.t]
    ELSE IF "DateTime" \in DOMAIN fields
    THEN IF ~fields["DateTime"].isString
         THEN [res |-> "panic", t |-> 0]
         ELSE LET r == ParseExif(fields["DateTime"].s)
              IN  [res |-> IF r.ok THEN "ok" ELSE "parse", t |-> r.t]
    ELSE [res |-> "nofield", t |-> 0]

\* processFile(fileWork, movieExtensions, stdErr), with the value layout of
\* the global fmtDesired.
processFile(f, layout, fileWork, ioOk) ==
    LET baseName == Base(fileWork)
        pieces == Split(baseName, Dot)
        extUpper == ToUpper(pieces[Len(pieces)])
        extLowerDot == <<Dot>> \o ToLower(pieces[Len(pieces)])
        c == f[Clean(fileWork)].c
    IN  IF Len(pieces) < 2
        THEN Outcome(f, <<Line("error", fileWork, "Skipping file without extension")>>, FALSE)
        ELSE IF inArray(extUpper, movieExtensions)
        THEN IF ~IsFile(f, fileWork)
             THEN Outcome(f, <<Line("error", fileWork, "Could not open movie file")>>, FALSE)
             ELSE IF ~c.video.ok
             THEN Outcome(f, <<Line("error", fileWork, "Could not read timestamp on movie file")>>, FALSE)
             ELSE IF TrimSuffix(baseName, extLowerDot) # FormatLayout(layout, c.video.t)
             THEN renameStep(f, fileWork, FormatLayout(layout, c.video.t), extLowerDot, ioOk)
             ELSE Outcome(f, <<>>, FALSE)
        ELSE IF ~IsFile(f, fileWork)
        THEN Outcome(f, <<Line("error", fileWork, "Could not read file")>>, FALSE)
        ELSE IF c.kind # "exif"
        THEN Outcome(f, <<Line("error", fileWork, "Could not decode EXIF data")>>, FALSE)
        ELSE LET ti == exifTime(c.exif)
             IN  IF ti.res = "panic" THEN Outcome(f, <<>>, TRUE)
                 ELSE IF ti.res = "nofield"
                 THEN Outcome(f, <<Line("error", fileWork, "No suitable EXIF date field found")>>, FALSE)
                 ELSE IF ti.res = "parse"
                 THEN Outcome(f, <<Line("error", fileWork, "Failed to parse EXIF date field")>>, FALSE)
                 ELSE IF baseName # FormatLayout(layout, ti.t) \o extLowerDot
                 THEN renameStep(f, fileWork, FormatLayout(layout, ti.t), extLowerDot, ioOk)
                 ELSE Outcome(f, <<>>, FALSE)

(* ------------------------------------------------------------------ *)
(* Backup                                                               *)
(* ------------------------------------------------------------------ *)

\* backupDirectory of src/main.go: the backup path from the absolute path.
backupPathAbs(originalPath) ==
    LET originalAbsPath == Abs(originalPath)
    IN  Join(Dir(originalAbsPath), Base(originalAbsPath) \o backupSuffix)

\* backupDirectory of the earlier version: the backup path from the path
\* as given, which main has ended with a separator.
backupPathRaw(originalPath) ==
    Join(Dir(originalPath), Base(originalPath) \o backupSuffix)

\* The destination of srcPath in the backup: by filepath.Rel in
\* src/main.go, by strings.TrimPrefix in the earlier version.
destPathRel(backupPath, originalPath, srcPath) ==
    Join(backupPath, Rel(Abs(originalPath), srcPath))

destPathTrim(backupPath, originalPath, srcPath) ==
    Join(backupPath, TrimPrefix(srcPath, originalPath))

\* A walk function that reports success on an entry it could not copy.
backupEntryUnchecked(f, um, srcPath, destPath, ioOk) ==
    IF ~ioOk \/ ~DoesFileExist(f, srcPath) THEN [ok |-> TRUE, fs |-> f]
    ELSE IF IsDir(f, srcPath) THEN MkdirAll(f, destPath)
    ELSE IF "ur" \notin f[Clean(srcPath)].perm THEN [ok |-> TRUE, fs |-> f]
    ELSE WriteFile(f, um, destPath, f[Clean(srcPath)].c, f[Clean(srcPath)].perm)

\* The walk function of backupDirectory on one entry (ioOk: no I/O error
\* is met): a directory is created, a file is read and written.
backupEntry(f, um, srcPath, destPath, ioOk) ==
    IF ~ioOk \/ ~DoesFileExist(f, srcPath) THEN [ok |-> FALSE, fs |-> f]
    ELSE IF IsDir(f, srcPath) THEN MkdirAll(f, destPath)
    ELSE IF "ur" \notin f[Clean(srcPath)].perm THEN [ok |-> FALSE, fs |-> f]
    ELSE WriteFile(f, um, destPath, f[Clean(srcPath)].c, f[Clean(srcPath)].perm)

\* A count that compares the extension as it is written, without
\* upper-casing it.
countFilteredFilesCaseSensitive(f, directory) ==
    Cardinality({q \in DOMAIN f :
        /\ f[q].kind = "file"
        /\ IsUnder(q, Clean(directory))
        /\ LET ext == TrimPrefix(Ext(Base(q)), <<Dot>>)
           IN  inArray(ext, pictureExtensions) \/ inArray(ext, movieExtensions)})

\* countFilteredFiles: the files below directory whose extension is a
\* picture or movie extension.
countFilteredFiles(f, directory) ==
    Cardinality({q \in DOMAIN f :
        /\ f[q].kind = "file"
        /\ IsUnder(q, Clean(directory))
        /\ LET ext == ToUpper(TrimPrefix(Ext(Base(q)), <<Dot>>))
           IN  inArray(ext, pictureExtensions) \/ inArray(ext, movieExtensions)})

(* ------------------------------------------------------------------ *)
(* The sequential pipeline: main                                        *)
(* ------------------------------------------------------------------ *)

VARIABLES
    fs,             \* the filesystem
    umask,          \* the umask of the process
    faults,         \* whether the system calls of this execution may meet I/O errors
    args,           \* os.Args[1:]
    version,        \* "abs": main of src/main.go; "raw": the earlier main; "pool": the worker pool
    pc,             \* where main stands
    rootDir,        \* originalAbsPath (directoryToIterate in the earlier mains)
    backupDirPath,  \* backupPath of backupDirectory, backupDirPath of main
    todo,           \* the entries filepath.Walk has still to visit in backupDirectory
    files,          \* the files recurseFiles returned (processJobs in the worker pool)
    idx,            \* the index of the file the loop of main (the sender of the pool) is at
    out,            \* the lines written to the log and to stderr
    run,            \* the number of this run of the program
    workerSt,       \* the worker pool: what each worker goroutine is doing
    wg,             \* the worker pool: the counter of the sync.WaitGroup
    stream,         \* the atom walker: the bytes of videoBuffer
    shape,          \* the atom walker: how the stream was built
    checksSeek,     \* the atom walker: TRUE for the version that checks the error of Seek
    pos,            \* the atom walker: the offset of videoBuffer
    buf,            \* the atom walker: buf
    wpc,            \* the atom walker: where getVideoCreationTimeMetadata stands
    reads,          \* the atom walker: the iterations of the scanning loop so far
    result          \* the atom walker: what getVideoCreationTimeMetadata returned

seqVars == <<fs, umask, faults, args, version, pc, rootDir, backupDirPath, todo, files, idx, out, run>>
poolVars == <<workerSt, wg>>
walkVars == <<stream, shape, checksSeek, pos, buf, wpc, reads, result>>
vars == <<seqVars, poolVars, walkVars>>

\* The worker pool does not exist in the sequential versions.
NoPool == workerSt = <<>> /\ wg = 0

\* No stream is being walked.
NoWalk ==
    /\ stream = <<>> /\ shape = <<>> /\ checksSeek = TRUE /\ pos = 0
    /\ buf = <<>> /\ wpc = "idle" /\ reads = 0 /\ result = <<>>

\* The outcomes of a system call: TRUE, it meets no I/O error.
IoOutcomes == IF faults THEN BOOLEAN ELSE {TRUE}

\* log.Fatal: the line is written and the process exits.
Fatal(why) ==
    /\ pc' = "fatal"
    /\ out' = Append(out, Line("fatal", why, ""))

\* main up to the call of backupDirectory: the argument is checked, the
\* path made absolute (the earlier main ends it with a separator instead)
\* and looked up.
Start ==
    /\ pc = "start"
    /\ IF args = <<>>
       THEN /\ Fatal("Usage: program <directory> [date-format]")
            /\ UNCHANGED <<rootDir, backupDirPath, todo>>
       ELSE LET potentialPath == args[1]
                dir == IF version = "abs" THEN Abs(potentialPath)
                       ELSE IF potentialPath[Len(potentialPath)] # Sep
                            THEN potentialPath \o <<Sep>>
                            ELSE potentialPath
            IN  IF ~DoesFileExist(fs, dir)
                THEN /\ Fatal("Path does not exist or is invalid")
                     /\ UNCHANGED <<rootDir, backupDirPath, todo>>
                ELSE /\ pc' = "backup"
                     /\ rootDir' = dir
                     /\ backupDirPath' = IF version = "abs" THEN backupPathAbs(dir)
                                         ELSE backupPathRaw(dir)
                     /\ todo' = <<IF version = "abs" THEN Abs(dir) ELSE dir>>
                     /\ out' = out
    /\ UNCHANGED <<fs, umask, faults, args, version, files, idx, run, poolVars, walkVars>>

\* One call of the walk function of backupDirectory.  filepath.Walk reads
\* the names of a directory before it calls the function on it; an error
\* ends the walk, and main ends the process on it.
BackupStep ==
    /\ pc = "backup"
    /\ todo # <<>>
    /\ \E ioOk \in IoOutcomes :
         LET srcPath == Head(todo)
             destPath == IF version = "abs"
                         THEN destPathRel(backupDirPath, rootDir, srcPath)
                         ELSE destPathTrim(backupDirPath, rootDir, srcPath)
             names == IF IsDir(fs, srcPath) THEN ReadDirNames(fs, srcPath) ELSE <<>>
             r == backupEntry(fs, umask, srcPath, destPath, ioOk)
         IN  IF r.ok
             THEN /\ fs' = r.fs
                  /\ todo' = [i \in 1..Len(names) |-> Join(srcPath, names[i])] \o Tail(todo)
                  /\ UNCHANGED <<pc, out>>
             ELSE /\ Fatal("Backup failed")
                  /\ UNCHANGED <<fs, todo>>
    /\ UNCHANGED <<umask, faults, args, version, rootDir, backupDirPath, files, idx, run, poolVars, walkVars>>

\* backupDirectory returns; recurseFiles lists the files below the root,
\* or filepath.Walk meets an error at the entry at (the root, a
\* directory or a file below it): the walk function returns the error,
\* the walk ends with it, and main ends the process.
Enumerate ==
    /\ pc = "backup"
    /\ todo = <<>>
    /\ \E ioOk \in IoOutcomes :
         IF ioOk
         THEN /\ files' = WalkFiles(fs, rootDir)
              /\ idx' = 1
              /\ pc' = "loop"
              /\ out' = Append(out, Line("backup-created", backupDirPath, ""))
         ELSE \E at \in {q \in DOMAIN fs : IsUnder(q, rootDir)} :
              /\ pc' = "fatal"
              /\ out' = out \o <<Line("backup-created", backupDirPath, ""),
                                 Line("fatal", "Error recursing files", at)>>
              /\ UNCHANGED <<files, idx>>
    /\ UNCHANGED <<fs, umask, faults, args, version, rootDir, backupDirPath, todo, run, poolVars, walkVars>>

\* fmtDesired of main: the second argument when there are two, the
\* default layout otherwise.
fmtDesired == IF Len(args) = 2 THEN args[2] ELSE DefaultLayout

\* Whether the loop of main takes the file: its extension, upper-cased, is
\* a picture or movie extension.
isCandidate(v, fileToWorkOn) ==
    IF v = "abs"
    THEN LET ext == TrimPrefix(ToUpper(Ext(fileToWorkOn)), <<Dot>>)
         IN  inArray(ext, pictureExtensions) \/ inArray(ext, movieExtensions)
    ELSE LET extParts == Split(fileToWorkOn, Dot)
             ext == ToUpper(extParts[Len(extParts)])
         IN  /\ Len(extParts) >= 2
             /\ inArray(ext, pictureExtensions) \/ inArray(ext, movieExtensions)

\* Whether the loop of main skips the file as named already: its base name
\* without the extension parses under fmtDesired.  src/main.go cuts the
\* lower-cased extension off, the earlier main the extension as it is.
alreadyNamed(v, fileToWorkOn) ==
    LET baseName == Base(fileToWorkOn)
    IN  IF v = "abs"
        THEN LET ext == TrimPrefix(ToUpper(Ext(fileToWorkOn)), <<Dot>>)
                 nameNoExt == TrimSuffix(baseName, <<Dot>> \o ToLower(ext))
             IN  ParseLayout(fmtDesired, nameNoExt).ok
        ELSE LET pieces == Split(baseName, Dot)
             IN  ParseLayout(fmtDesired, TrimSuffix(baseName, <<Dot>> \o pieces[Len(pieces)])).ok

\* One iteration of the loop of main over the files.
LoopStep ==
    /\ pc = "loop"
    /\ idx <= Len(files)
    /\ \E ioOk \in IoOutcomes :
         LET fileToWorkOn == files[idx]
             r == processFile(fs, fmtDesired, fileToWorkOn, ioOk)
         IN  IF ~isCandidate(version, fileToWorkOn)
             THEN UNCHANGED <<fs, out, pc>>
             ELSE IF alreadyNamed(version, fileToWorkOn)
             THEN /\ out' = Append(out, Line("skip", fileToWorkOn, ""))
                  /\ UNCHANGED <<fs, pc>>
             ELSE /\ fs' = r.fs
                  /\ out' = out \o r.lines
                  /\ pc' = IF r.panic THEN "panic" ELSE pc
    /\ idx' = idx + 1
    /\ UNCHANGED <<umask, faults, args, version, rootDir, backupDirPath, todo, files, run, poolVars, walkVars>>

\* The end of main: the filtered files of both trees are counted; the
\* backup is removed when the counts are equal and kept otherwise, also
\* when counting fails (countOk FALSE: a walk error).
Verify ==
    /\ pc = "loop"
    /\ idx > Len(files)
    /\ \E countOk \in IoOutcomes :
         LET originalCount == countFilteredFiles(fs, rootDir)
             backupCount == countFilteredFiles(fs, backupDirPath)
         IN  IF ~countOk \/ ~DoesFileExist(fs, rootDir) \/ ~DoesFileExist(fs, backupDirPath)
             THEN /\ out' = Append(out, Line("count-error", "", ""))
                  /\ fs' = fs
             ELSE IF originalCount = backupCount
             THEN /\ fs' = RemoveAll(fs, backupDirPath)
                  /\ out' = Append(out, Line("backup-removed", originalCount, backupCount))
             ELSE /\ fs' = fs
                  /\ out' = Append(out, Line("backup-retained", originalCount, backupCount))
    /\ pc' = "done"
    /\ UNCHANGED <<umask, faults, args, version, rootDir, backupDirPath, todo, files, idx, run, poolVars, walkVars>>

\* The program is started again on the tree the run before left.  An
\* execution in which system calls meet I/O errors is followed for one
\* run only.
Rerun ==
    /\ pc = "done"
    /\ run < MaxRuns
    /\ ~faults
    /\ run' = run + 1
    /\ pc' = "start"
    /\ out' = <<>>
    /\ rootDir' = <<>>
    /\ backupDirPath' = <<>>
    /\ todo' = <<>>
    /\ files' = <<>>
    /\ idx' = 0
    /\ UNCHANGED <<fs, umask, faults, args, version, poolVars, walkVars>>

\* The state a run starts in.
InitRun ==
    /\ pc = "start"
    /\ rootDir = <<>>
    /\ backupDirPath = <<>>
    /\ todo = <<>>
    /\ files = <<>>
    /\ idx = 0
    /\ out = <<>>
    /\ run = 1

\* The program of src/main.go on a tree of at most MaxFiles files, with or
\* without the backup directory of an earlier run, the root given with or
\* without a trailing separator; without the argument; on a missing root.
InitSeq ==
    /\ version = "abs"
    /\ umask = Umask022
    /\ faults \in BOOLEAN
    /\ InitRun
    /\ NoPool
    /\ NoWalk
    /\ \/ /\ args \in {<<Root>>, <<Root \o <<Sep>>>>}
          /\ \E S \in FileSets, stale \in BOOLEAN :
               fs = MkTree(S, Perm644, stale, backupPathAbs(Root))
       \/ /\ args \in {<<>>, <<Parent \o <<Sep, "missing">>>>}
          /\ fs = MkTree({}, Perm644, FALSE, <<>>)

NextSeq == Start \/ BackupStep \/ Enumerate \/ LoopStep \/ Verify \/ Rerun

Init == InitSeq
Next == NextSeq
Spec == Init /\ [][Next]_vars

(* ------------------------------------------------------------------ *)
(* Properties of the sequential pipeline                                *)
(* ------------------------------------------------------------------ *)

\* The indices of the lines of o that report a rename.
RenamedLines(o) == {i \in 1..Len(o) : o[i].k = "renamed"}

\* The lines a step has added to the output.
NewLines == IF Len(out') >= Len(out) THEN (Len(out) + 1)..Len(out') ELSE {}

\* The files at or below dir.
FilesUnder(f, dir) == {q \in DOMAIN f : f[q].kind = "file" /\ IsUnder(q, dir)}

\* The multiset of the file contents at or below dir: how many files hold
\* each content.
ContentBag(f, dir) ==
    [id \in {f[q].c.id : q \in FilesUnder(f, dir)} |->
        Cardinality({q \in FilesUnder(f, dir) : f[q].c.id = id})]

\* The entries at or below dir.
TreeUnder(f, dir) == [q \in {x \in DOMAIN f : IsUnder(x, dir)} |-> f[q]]

C3_SecondRunRenamesNothing ==
    (run = 2 /\ ~faults) => RenamedLines(out) = {}

\* The inputs renameWithCollision is probed with: a file of every
\* directory below the root as src (the result depends on src by its
\* directory only), every rendered instant as targetBase, two extensions.
ProbeSrcs ==
    {CHOOSE q \in DOMAIN fs : fs[q].kind = "file" /\ IsUnder(q, Root) /\ Dir(q) = d :
        d \in {Dir(q) : q \in {x \in DOMAIN fs : fs[x].kind = "file" /\ IsUnder(x, Root)}}}
ProbeBases == {Format(t) : t \in Times}
ProbeExts == {<<Dot, "jpg">>, <<Dot, "mov">>}

\* dir/targetBase-n+ext
Suffixed(dir, targetBase, n, ext) == Join(dir, targetBase \o <<Dash, Itoa(n)>> \o ext)

\* The suffixes n >= 1 whose path does not exist; one of the first
\* |DOMAIN f| + 1 is always among them.
FreeSuffixes(f, dir, targetBase, ext) ==
    {n \in 1..(Cardinality(DOMAIN f) + 1) : Suffixed(dir, targetBase, n, ext) \notin DOMAIN f}

Least(S) == CHOOSE n \in S : \A m \in S : n <= m

\* The unsuffixed candidate and every suffixed candidate of the collision
\* loop exist.
AllTaken(f, dir, targetBase, ext) ==
    /\ Join(dir, targetBase \o ext) \in DOMAIN f
    /\ \A n \in 1..(colisionMax - 1) : Suffixed(dir, targetBase, n, ext) \in DOMAIN f

\* The original statement of C4: renameWithCollision returns the
\* unsuffixed path when it is free, and otherwise the path with the
\* smallest suffix n >= 1 that is free.
C4_SmallestFreeSuffix ==
    \A src \in ProbeSrcs, targetBase \in ProbeBases, ext \in ProbeExts :
        renameWithCollision(fs, src, targetBase, ext) =
            IF Join(Dir(src), targetBase \o ext) \notin DOMAIN fs
            THEN [ok |-> TRUE, path |-> Join(Dir(src), targetBase \o ext)]
            ELSE [ok |-> TRUE,
                  path |-> Suffixed(Dir(src), targetBase,
                                    Least(FreeSuffixes(fs, Dir(src), targetBase, ext)), ext)]

\* C4, amended: renameWithCollision returns the unsuffixed path when it is
\* free; otherwise the path with the smallest free suffix n, 1 <= n <
\* colisionMax; and it fails when no suffix below colisionMax is free.
C4_SmallestFreeSuffixBelowMax ==
    \A src \in ProbeSrcs, targetBase \in ProbeBases, ext \in ProbeExts :
        renameWithCollision(fs, src, targetBase, ext) =
            IF Join(Dir(src), targetBase \o ext) \notin DOMAIN fs
            THEN [ok |-> TRUE, path |-> Join(Dir(src), targetBase \o ext)]
            ELSE IF AllTaken(fs, Dir(src), targetBase, ext)
            THEN [ok |-> FALSE, path |-> <<>>]
            ELSE [ok |-> TRUE,
                  path |-> Suffixed(Dir(src), targetBase,
                                    Least(FreeSuffixes(fs, Dir(src), targetBase, ext)), ext)]

\* Three files of one directory with the same timestamp have been renamed
\* one after another, to base, base-1 and base-2 in that order.
C4_Witness ==
    \E i \in 1..Len(out) :
        /\ i + 2 <= Len(out)
        /\ out[i].k = "renamed" /\ out[i + 1].k = "renamed" /\ out[i + 2].k = "renamed"
        /\ out[i].b = Join(Root, Format(0) \o <<Dot, "jpg">>)
        /\ out[i + 1].b = Suffixed(Root, Format(0), 1, <<Dot, "jpg">>)
        /\ out[i + 2].b = Suffixed(Root, Format(0), 2, <<Dot, "jpg">>)

\* The timestamp processFile reads from a file and renders as its desired
\* name: ok is FALSE when the metadata yields none.
DesiredTime(c) ==
    IF c.kind = "video" THEN c.video
    ELSE IF c.kind = "exif"
    THEN [ok |-> exifTime(c.exif).res = "ok", t |-> exifTime(c.exif).t]
    ELSE [ok |-> FALSE, t |-> 0]

\* The extension processFile gives the new name.
LowerExt(path) == ToLower(Ext(path))

\* The loop of main is at a file it hands to processFile, whose metadata
\* yields a timestamp, whose name is not the desired one, and for whose
\* desired name every candidate exists.
AtExhaustedFile ==
    /\ pc = "loop"
    /\ idx <= Len(files)
    /\ isCandidate(version, files[idx])
    /\ ~alreadyNamed(version, files[idx])
    /\ LET d == DesiredTime(fs[files[idx]].c)
       IN  /\ d.ok
           /\ Base(files[idx]) # Format(d.t) \o LowerExt(files[idx])
           /\ AllTaken(fs, Dir(files[idx]), Format(d.t), LowerExt(files[idx]))

\* C5: when the unsuffixed candidate and every suffixed candidate exist,
\* processFile reports the failed name resolution for that file, renames
\* nothing, and main goes on to the next file.
C5_ExhaustionFailsOneFile ==
    [][ AtExhaustedFile =>
          /\ fs' = fs
          /\ out' = Append(out, Line("error", files[idx], "Could not resolve collision"))
          /\ pc' = "loop"
          /\ idx' = idx + 1
          /\ files' = files ]_vars

\* A batch has ended in which name resolution failed for one file and
\* main handled another file after it.
C5_Witness ==
    /\ pc = "done"
    /\ \E i, j \in 1..Len(out) :
         /\ i < j
         /\ out[i].k = "error" /\ out[i].b = "Could not resolve collision"
         /\ out[j].k \in {"renamed", "error", "skip"}
         /\ out[j].a # out[i].a
         /\ out[i].a \in DOMAIN fs

\* Every directory and file below the root has its copy at the same
\* relative path below the backup root.
Mirrored(f) ==
    \A q \in DOMAIN f :
        IsUnder(q, Root) =>
            LET d == Join(backupPathAbs(Root), Rel(Root, q))
            IN  /\ d \in DOMAIN f
                /\ f[d].kind = f[q].kind
                /\ f[d].c = f[q].c

\* C6: the tree below the root changes only in the loop of main, after
\* the backup has been reported as created, and the first change finds
\* the whole tree copied; when the process ends fatally (the backup
\* failed) nothing has been renamed.
C6_NoRenameBeforeBackup ==
    [][ /\ TreeUnder(fs', Root) # TreeUnder(fs, Root) =>
              /\ pc = "loop"
              /\ \E i \in 1..Len(out) : out[i].k = "backup-created"
              /\ RenamedLines(out) = {} => Mirrored(fs)
        /\ pc' = "fatal" =>
              /\ RenamedLines(out') = {}
              /\ TreeUnder(fs', Root) = TreeUnder(fs, Root) ]_vars

\* The backup has failed after it had copied a file already.
C6_Witness ==
    /\ pc = "fatal"
    /\ out[Len(out)] = Line("fatal", "Backup failed", "")
    /\ FilesUnder(fs, Root) # {}
    /\ \E q \in FilesUnder(fs, backupPathAbs(Root)) : fs[q].c.id # "Z"
    /\ ~Mirrored(fs)

\* The extensions of the combined picture/movie set, in lower case.
MediaExts ==
    {<<Dot, e>> : e \in {"jpg", "tif", "bmp", "png", "jpeg", "gif", "cr2",
                         "arw", "heic", "nef", "mov", "mp4"}}

\* The number of files below dir with an extension of the combined set,
\* in any letter case.
FilteredCount(f, dir) ==
    Cardinality({q \in FilesUnder(f, dir) : LowerExt(q) \in MediaExts})

AtProcessedFile ==
    /\ pc = "loop"
    /\ idx <= Len(files)
    /\ isCandidate(version, files[idx])
    /\ ~alreadyNamed(version, files[idx])

\* The loop of main is at a picture it hands to processFile, which the
\* EXIF decoder reads.
AtDecodedPicture ==
    /\ AtProcessedFile
    /\ LowerExt(files[idx]) \notin {<<Dot, "mov">>, <<Dot, "mp4">>}
    /\ IsFile(fs, files[idx])
    /\ fs[files[idx]].c.kind = "exif"

\* The values of the tag map that match YYYY:MM:DD HH:MM:SS, and the
\* instant each of them names.
WellFormed(v) == v.isString /\ v.s \in {E0, E1}
InstantOf(v) == IF v.s = E0 THEN 0 ELSE 1

\* The step renames nothing and writes the one error line why for the file
\* at hand.
FailsWith(why) ==
    /\ fs' = fs
    /\ out' = Append(out, Line("error", files[idx], why))

\* The step renames the file at hand to a name of the instant t in its
\* directory, or finds it named so, or fails at the name or at the rename.
ResolvesTo(t) ==
    \/ /\ fs' = fs
       /\ out' = out
       /\ Base(files[idx]) = Format(t) \o LowerExt(files[idx])
    \/ /\ \E i \in NewLines :
            /\ out'[i].k = "renamed"
            /\ out'[i].a = files[idx]
            /\ HasPrefix(Base(out'[i].b), Format(t))
       /\ Len(out') = Len(out) + 1
    \/ FailsWith("Could not resolve collision")
    \/ FailsWith("Could not rename")

\* processFile on tag maps whose chosen value is a string.
ExifResolutionOnStrings ==
    [][ AtDecodedPicture =>
          LET tags == fs[files[idx]].c.exif
          IN  IF "DateTimeOriginal" \in DOMAIN tags
              THEN tags["DateTimeOriginal"].isString =>
                     IF WellFormed(tags["DateTimeOriginal"])
                     THEN ResolvesTo(InstantOf(tags["DateTimeOriginal"]))
                     ELSE FailsWith("Failed to parse EXIF date field")
              ELSE IF "DateTime" \in DOMAIN tags
              THEN tags["DateTime"].isString =>
                     IF WellFormed(tags["DateTime"])
                     THEN ResolvesTo(InstantOf(tags["DateTime"]))
                     ELSE FailsWith("Failed to parse EXIF date field")
              ELSE FailsWith("No suitable EXIF date field found") ]_vars

\* C12: processFile resolves the timestamp of a picture from the decoded
\* tag map: the value of DateTimeOriginal when the tag is present, else
\* the value of DateTime when that tag is present; with neither tag it
\* fails with the no-suitable-field error; with a chosen value that does
\* not match YYYY:MM:DD HH:MM:SS it fails with the parse error, which is
\* another error; a failed resolution leaves the file as it is.
C12_ExifResolution ==
    [][ AtDecodedPicture =>
          LET tags == fs[files[idx]].c.exif
          IN  IF "DateTimeOriginal" \in DOMAIN tags
              THEN IF WellFormed(tags["DateTimeOriginal"])
                   THEN ResolvesTo(InstantOf(tags["DateTimeOriginal"]))
                   ELSE FailsWith("Failed to parse EXIF date field")
              ELSE IF "DateTime" \in DOMAIN tags
              THEN IF WellFormed(tags["DateTime"])
                   THEN ResolvesTo(InstantOf(tags["DateTime"]))
                   ELSE FailsWith("Failed to parse EXIF date field")
              ELSE FailsWith("No suitable EXIF date field found") ]_vars

\* The lines of o written for the file q by the loop of main.
LinesFor(o, q) == {i \in 1..Len(o) : o[i].k \in {"renamed", "error", "skip"} /\ o[i].a = q}

\* The step handles the file at hand and nothing else: it writes one line
\* for it, a rename or an error; with an error the filesystem is as it
\* was, with a rename only the file at hand has moved; and the loop stands
\* at the next file.
IsolatedStep ==
    /\ pc' = "loop"
    /\ idx' = idx + 1
    /\ files' = files
    /\ Len(out') = Len(out) + 1
    /\ LET l == out'[Len(out')]
       IN  /\ l.k \in {"renamed", "error"}
           /\ l.a = files[idx]
           /\ l.k = "error" => fs' = fs
           /\ l.k = "renamed" =>
                 \A q \in DOMAIN fs \ {files[idx]} : q \in DOMAIN fs' /\ fs'[q] = fs[q]

\* Every enumerated file that main takes has its one line, and a file
\* whose line is an error is where it was.
AllHandled ==
    \A j \in 1..Len(files) :
        isCandidate(version, files[j]) =>
            /\ Cardinality(LinesFor(out, files[j])) = 1
            /\ \A i \in LinesFor(out, files[j]) :
                  out[i].k = "error" => files[j] \in DOMAIN fs

\* Isolation in the batches in which no call of processFile panics.
IsolationWithoutPanic ==
    [][ /\ (AtProcessedFile /\ pc' # "panic") => IsolatedStep
        /\ (pc = "loop" /\ idx' > Len(files) /\ pc' # "panic") => AllHandled' ]_vars

\* A batch of three files has ended with two renames and one error, the
\* error for a picture whose EXIF data cannot be decoded.
IsolationExample ==
    /\ pc = "done"
    /\ Len(files) = 3
    /\ Cardinality(RenamedLines(out)) = 2
    /\ Cardinality({i \in 1..Len(out) : out[i].k = "error"}) = 1
    /\ \E i \in 1..Len(out) :
         /\ out[i] = Line("error", out[i].a, "Could not decode EXIF data")
         /\ out[i].a \in DOMAIN fs

\* C13: a failure of metadata extraction, of name resolution or of the
\* rename for one file is reported with one error line and leaves that
\* file, and everything else, as it was; main goes on to the next file,
\* and at the end of the loop every candidate file of the batch has been
\* handled: each has its one line, a rename, an error or a skip.
C13_PartialFailureIsolation ==
    [][ /\ AtProcessedFile => IsolatedStep
        /\ (pc = "loop" /\ idx' > Len(files)) => AllHandled' ]_vars

\* The lines log.Fatal writes before the loop of main: the argument is
\* missing, the root does not exist, the backup failed, the enumeration
\* failed (the matter of C17).
FatalLine(l) ==
    /\ l.k = "fatal"
    /\ l.a \in {"Usage: program <directory> [date-format]",
                "Path does not exist or is invalid",
                "Backup failed",
                "Error recursing files"}

\* The process ends early only by log.Fatal, before any file is handled.
FatalOnlyBeforeLoop ==
    pc = "fatal" => /\ FatalLine(out[Len(out)])
                    /\ RenamedLines(out) = {}
                    /\ \A i \in 1..Len(out) : out[i].k \notin {"error", "skip"}

\* C14: the process ends early only by the fatal errors before the loop
\* of main (missing argument, missing root, failed backup; the failed
\* enumeration is left to C17); once the loop over the files has begun
\* no file ends the process: every step of the loop leaves main in the
\* loop, until the backup decision is taken.
C14_NoFileEndsTheProcess ==
    /\ FatalOnlyBeforeLoop
    /\ pc \in {"start", "backup", "loop", "done", "fatal"}

\* The base name of a path with its extension removed.
NameNoExt(path) == SubSeq(Base(path), 1, Len(Base(path)) - Len(Ext(Base(path))))

\* The loop of main is at a media file whose base name without the
\* extension parses under fmtDesired.
AtNamedFile ==
    /\ pc = "loop"
    /\ idx <= Len(files)
    /\ LowerExt(files[idx]) \in MediaExts
    /\ ParseDesired(NameNoExt(files[idx])).ok

\* The step skips the file at hand: it writes the skip line and changes
\* nothing else.
SkipsFile ==
    /\ fs' = fs
    /\ out' = Append(out, Line("skip", files[idx], ""))
    /\ pc' = "loop"
    /\ idx' = idx + 1

\* The guard on the files whose extension is written in lower case.
GuardOnLowerCase ==
    [][ (AtNamedFile /\ Ext(files[idx]) = LowerExt(files[idx])) => SkipsFile ]_vars

\* The guard of the earlier sequential main, which cuts the extension off
\* as it is written.
GuardInEarlierMain ==
    [][ (version = "raw" /\ AtNamedFile) => SkipsFile ]_vars

\* C15: every enumerated media file whose base name without its
\* extension parses under fmtDesired is skipped: the loop of main writes
\* the skip line, does not call processFile and renames nothing, whatever
\* the letter case of the extension.
C15_NamedFilesAreSkipped ==
    [][ AtNamedFile => SkipsFile ]_vars

\* The names <formatted-timestamp>[-<n>]<ext>.
TimestampNames(ext) ==
    {Format(t) \o ext : t \in Times}
    \cup {Format(t) \o <<Dash, Itoa(n)>> \o ext : t \in Times, n \in 1..(colisionMax - 1)}

\* Every rename of the step stays in the directory of the file and gives
\* it a timestamp name with the extension ext(old path).
RenamesKeep(ext(_)) ==
    \A i \in NewLines :
        out'[i].k = "renamed" =>
            /\ Dir(out'[i].b) = Dir(out'[i].a)
            /\ Base(out'[i].b) \in TimestampNames(ext(out'[i].a))
            /\ Ext(out'[i].b) = ext(out'[i].a)
            /\ ~DoesFileExist(fs', out'[i].a)
            /\ DoesFileExist(fs', out'[i].b)

\* What the renames of processFile do keep: the directory, and the
\* extension in lower case.
RenameKeepsDirectoryAndLowerExt ==
    [][ RenamesKeep(LowerExt) ]_vars

\* C16: every successful rename moves the file within its directory to a
\* name <formatted-timestamp>[-<n>].<extension>, the extension being that
\* of the old name as it was written, letter case included.
C16_RenameKeepsDirAndExtension ==
    [][ RenamesKeep(Ext) ]_vars

\* The enumeration has ended main: the last line is the fatal line of
\* recurseFiles, which names the entry the walk met the error at.
EnumerationFatal ==
    /\ pc = "fatal"
    /\ out[Len(out)].k = "fatal"
    /\ out[Len(out)].a = "Error recursing files"

\* C17: an error the enumeration walk meets at an entry below the root
\* does not end the batch: the entry is skipped and the files that can be
\* enumerated are processed; the enumeration ends main only when the
\* error is at the root itself.
C17_WalkErrorBelowRootIsSkipped ==
    EnumerationFatal => out[Len(out)].b = rootDir

(* ------------------------------------------------------------------ *)
(* The snapshot of both sequential versions                             *)
(* ------------------------------------------------------------------ *)

\* Both sequential versions on a tree whose files all have the permission
\* bits 0644 or all have 0666, the root given with or without a trailing
\* separator; no system call meets an I/O error.
InitBackup ==
    /\ version \in {"abs", "raw"}
    /\ umask = Umask022
    /\ faults = FALSE
    /\ InitRun
    /\ NoPool
    /\ NoWalk
    /\ args \in {<<Root>>, <<Root \o <<Sep>>>>}
    /\ \E S \in FileSets, perm \in {Perm644, Perm666} :
         fs = MkTree(S, perm, FALSE, <<>>)

SpecBackup == InitBackup /\ [][Next]_vars

\* backupDirectory has returned without an error and main has not yet
\* handled a file.
SnapshotDone == pc = "loop" /\ idx = 1

\* The entries of the root that are not the backup itself.
Originals(f) == {q \in DOMAIN f : IsUnder(q, Root) /\ ~IsUnder(q, Clean(backupDirPath))}

\* C8: after a successful snapshot the backup root is the sibling of the
\* root named <base name of the root> - Backup Exif, it does not lie
\* inside the root, and every directory and file below the root has its
\* copy at the same relative path below the backup root, a file with the
\* same content and permission bits.
C8_BackupIsSiblingMirror ==
    SnapshotDone =>
        /\ Clean(backupDirPath) = Join(Parent, Base(Root) \o backupSuffix)
        /\ ~IsUnder(Clean(backupDirPath), Root)
        /\ \A q \in Originals(fs) :
             LET d == Join(backupDirPath, Rel(Root, q))
             IN  /\ d \in DOMAIN fs
                 /\ fs[d].kind = fs[q].kind
                 /\ fs[q].kind = "file" =>
                        fs[d].c = fs[q].c /\ fs[d].perm = fs[q].perm

\* The parts of C8, to tell the versions apart: where the backup root
\* lies, and what the copies are.
BackupIsSibling ==
    SnapshotDone =>
        /\ Clean(backupDirPath) = Join(Parent, Base(Root) \o backupSuffix)
        /\ ~IsUnder(Clean(backupDirPath), Root)

BackupKeepsContent ==
    SnapshotDone =>
        \A q \in Originals(fs) :
            LET d == Join(backupDirPath, Rel(Root, q))
            IN  /\ d \in DOMAIN fs
                /\ fs[d].kind = fs[q].kind
                /\ fs[q].kind = "file" => fs[d].c = fs[q].c

BackupKeepsPermissions ==
    SnapshotDone =>
        \A q \in Originals(fs) :
            LET d == Join(backupDirPath, Rel(Root, q))
            IN  (d \in DOMAIN fs /\ fs[q].kind = "file") => fs[d].perm = fs[q].perm

(* ------------------------------------------------------------------ *)
(* The worker pool (the first version in src/main.go)                   *)
(* ------------------------------------------------------------------ *)

\* The number of worker goroutines (numConcurrent, 100 in the source).
numConcurrent == 2

Workers == 1..numConcurrent

\* What a worker is doing: idle (receiving from jobs), run (job.Func has
\* been called), rename (before the first os.Rename), retry (in the
\* collision loop at suffix i), dead (it has recovered from a panic and
\* returned).
WorkerState(st, file, potentialName, i) ==
    [st |-> st, file |-> file, potentialName |-> potentialName, i |-> i]

IdleWorker == WorkerState("idle", <<>>, <<>>, 0)

\* existingExt of the job function: the extension as it is written.
existingExt(fileWork) ==
    LET pieces == Split(Base(fileWork), Dot)
    IN  <<Dot>> \o pieces[Len(pieces)]

\* fileName of the job function and of main: the base name with every
\* occurrence of the extension removed.
fileNameOf(fileWork) == ReplaceAll(Base(fileWork), existingExt(fileWork), <<>>)

\* newName of the job function for the name potentialName.
newNameOf(fileWork, potentialName) ==
    ReplaceAll(fileWork,
               <<Sep>> \o fileNameOf(fileWork) \o existingExt(fileWork),
               <<Sep>> \o potentialName \o existingExt(fileWork))

\* processJobs of main: the files with a picture or movie extension whose
\* fileName does not parse under fmtDesired, in the order of files.
RECURSIVE poolJobs(_)
poolJobs(fileSeq) ==
    IF fileSeq = <<>> THEN <<>>
    ELSE LET fileToWorkOn == Head(fileSeq)
             pieces == Split(fileToWorkOn, Dot)
             ext == ToUpper(pieces[Len(pieces)])
         IN  IF /\ inArray(ext, pictureExtensions) \/ inArray(ext, movieExtensions)
                /\ ~ParseDesired(fileNameOf(fileToWorkOn)).ok
             THEN <<fileToWorkOn>> \o poolJobs(Tail(fileSeq))
             ELSE poolJobs(Tail(fileSeq))

\* The lines main logs for the files it skips as named already.
RECURSIVE poolSkips(_)
poolSkips(fileSeq) ==
    IF fileSeq = <<>> THEN <<>>
    ELSE LET fileToWorkOn == Head(fileSeq)
             pieces == Split(fileToWorkOn, Dot)
             ext == ToUpper(pieces[Len(pieces)])
         IN  IF /\ inArray(ext, pictureExtensions) \/ inArray(ext, movieExtensions)
                /\ ParseDesired(fileNameOf(fileToWorkOn)).ok
             THEN <<Line("skip", fileToWorkOn, "")>> \o poolSkips(Tail(fileSeq))
             ELSE poolSkips(Tail(fileSeq))

\* The part of the job function before the rename: the timestamp read from
\* the file.  res is ok, error (a line msg is written), silent (the
\* function returns without a line) or panic.
poolTime(f, fileWork) ==
    LET pieces == Split(Base(fileWork), Dot)
        extUpper == ToUpper(pieces[Len(pieces)])
        c == f[Clean(fileWork)].c
    IN  IF inArray(extUpper, movieExtensions)
        THEN IF ~IsFile(f, fileWork) \/ ~c.video.ok
             THEN [res |-> "error", t |-> 0, msg |-> "Could not Read timestamp on movie file"]
             ELSE [res |-> "ok", t |-> c.video.t, msg |-> ""]
        ELSE IF ~IsFile(f, fileWork)
        THEN [res |-> "error", t |-> 0, msg |-> "Could not ReadFile"]
        ELSE IF c.kind # "exif"
        THEN [res |-> "error", t |-> 0, msg |-> "Could not exif.Decode"]
        ELSE LET ti == exifTime(c.exif)
             IN  IF ti.res = "panic" THEN [res |-> "panic", t |-> 0, msg |-> ""]
                 ELSE IF ti.res = "nofield" THEN [res |-> "silent", t |-> 0, msg |-> ""]
                 ELSE IF ti.res = "parse"
                 THEN [res |-> "error", t |-> 0, msg |-> "Failed to parse Exif Data"]
                 ELSE [res |-> "ok", t |-> ti.t, msg |-> ""]

\* A worker that counts a returned job twice.
JobDoneTwice(w) ==
    /\ workerSt' = [workerSt EXCEPT ![w] = IdleWorker]
    /\ wg' = wg - 2

\* The job function has returned: the worker calls job.Wg.Done and
\* receives again.
JobDone(w) ==
    /\ workerSt' = [workerSt EXCEPT ![w] = IdleWorker]
    /\ wg' = wg - 1

\* main of the pool version up to wg.Wait: os.Args[1] is read before the
\* number of arguments is checked; a path that ends with a separator
\* leaves directoryToIterate empty; the error of RecurseFiles is dropped.
PoolStart ==
    /\ version = "pool"
    /\ pc = "start"
    /\ IF args = <<>>
       THEN /\ pc' = "panic"
            /\ UNCHANGED <<rootDir, files, idx, out, wg>>
       ELSE LET potentialPath == args[1]
                directoryToIterate == IF potentialPath[Len(potentialPath)] # Sep
                                      THEN potentialPath \o <<Sep>>
                                      ELSE <<>>
                found == IF directoryToIterate = <<>> THEN <<>>
                         ELSE WalkFiles(fs, directoryToIterate)
            IN  IF directoryToIterate = <<>> \/ ~DoesFileExist(fs, directoryToIterate)
                THEN /\ Fatal("Path does not exist or is invalid")
                     /\ UNCHANGED <<rootDir, files, idx, wg>>
                ELSE /\ pc' = "wait"
                     /\ rootDir' = directoryToIterate
                     /\ files' = poolJobs(found)
                     /\ idx' = 1
                     /\ wg' = Len(poolJobs(found))
                     /\ out' = out \o poolSkips(found)
    /\ UNCHANGED <<fs, umask, faults, args, version, backupDirPath, todo, run, workerSt, walkVars>>

\* The sending goroutine hands the next job to a worker that is receiving
\* (jobs is unbuffered).
Dispatch(w) ==
    /\ pc = "wait"
    /\ idx <= Len(files)
    /\ workerSt[w].st = "idle"
    /\ workerSt' = [workerSt EXCEPT ![w] = WorkerState("run", files[idx], <<>>, 0)]
    /\ idx' = idx + 1
    /\ UNCHANGED <<fs, umask, faults, args, version, pc, rootDir, backupDirPath, todo, files, out, run, wg, walkVars>>

\* The job function up to its first os.Rename.
WorkerRead(w) ==
    /\ workerSt[w].st = "run"
    /\ LET fileWork == workerSt[w].file
           ti == poolTime(fs, fileWork)
       IN  IF ti.res = "panic"
           THEN /\ workerSt' = [workerSt EXCEPT ![w].st = "dead"]
                /\ UNCHANGED <<wg, out>>
           ELSE IF ti.res = "error"
           THEN /\ out' = Append(out, Line("error", fileWork, ti.msg))
                /\ JobDone(w)
           ELSE IF ti.res = "silent" \/ fileNameOf(fileWork) = Format(ti.t)
           THEN /\ out' = out
                /\ JobDone(w)
           ELSE /\ workerSt' = [workerSt EXCEPT ![w] = WorkerState("rename", fileWork, Format(ti.t), 0)]
                /\ UNCHANGED <<wg, out>>
    /\ UNCHANGED <<fs, umask, faults, args, version, pc, rootDir, backupDirPath, todo, files, idx, run, walkVars>>

\* os.Rename(fileWork, newName): there is no test whether newName exists.
WorkerRename(w) ==
    /\ workerSt[w].st = "rename"
    /\ \E ioOk \in IoOutcomes :
         LET fileWork == workerSt[w].file
             newName == newNameOf(fileWork, workerSt[w].potentialName)
             moved == Rename(fs, fileWork, newName)
         IN  IF ioOk /\ moved.ok
             THEN /\ fs' = moved.fs
                  /\ out' = Append(out, Line("renamed", fileWork, newName))
                  /\ JobDone(w)
             ELSE /\ workerSt' = [workerSt EXCEPT ![w].st = "retry", ![w].i = 1]
                  /\ UNCHANGED <<fs, out, wg>>
    /\ UNCHANGED <<umask, faults, args, version, pc, rootDir, backupDirPath, todo, files, idx, run, walkVars>>

\* One turn of the collision loop, which is entered when os.Rename has
\* failed: os.Rename to the name with the suffix i, or, past the last
\* suffix, the error line.
WorkerRetry(w) ==
    /\ workerSt[w].st = "retry"
    /\ \E ioOk \in IoOutcomes :
         LET fileWork == workerSt[w].file
             i == workerSt[w].i
             newName == newNameOf(fileWork, workerSt[w].potentialName \o <<Dash, Itoa(i)>>)
             moved == Rename(fs, fileWork, newName)
         IN  IF i >= colisionMax
             THEN /\ out' = Append(out, Line("error", fileWork, "Could not rename"))
                  /\ fs' = fs
                  /\ JobDone(w)
             ELSE IF ioOk /\ moved.ok
             THEN /\ fs' = moved.fs
                  /\ out' = Append(out, Line("renamed", fileWork, newName))
                  /\ JobDone(w)
             ELSE /\ workerSt' = [workerSt EXCEPT ![w].i = i + 1]
                  /\ UNCHANGED <<fs, out, wg>>
    /\ UNCHANGED <<umask, faults, args, version, pc, rootDir, backupDirPath, todo, files, idx, run, walkVars>>

\* wg.Wait returns when the counter is zero, and main ends.
PoolWait ==
    /\ pc = "wait"
    /\ wg = 0
    /\ pc' = "done"
    /\ out' = Append(out, Line("completed", "", ""))
    /\ UNCHANGED <<fs, umask, faults, args, version, rootDir, backupDirPath, todo, files, idx, run, poolVars, walkVars>>

\* The pool version on a tree of the initial trees, the root given with
\* or without a trailing separator, or without the argument.
InitPool ==
    /\ version = "pool"
    /\ umask = Umask022
    /\ faults \in BOOLEAN
    /\ InitRun
    /\ NoWalk
    /\ workerSt = [w \in Workers |-> IdleWorker]
    /\ wg = 0
    /\ args \in {<<Root>>, <<Root \o <<Sep>>>>, <<>>}
    /\ \E S \in FileSets : fs = MkTree(S, Perm644, FALSE, <<>>)

NextPool ==
    \/ PoolStart
    \/ \E w \in Workers : Dispatch(w)
    \/ \E w \in Workers : WorkerRead(w)
    \/ \E w \in Workers : WorkerRename(w)
    \/ \E w \in Workers : WorkerRetry(w)
    \/ PoolWait

SpecPool == InitPool /\ [][NextPool]_vars

\* C2: the renames of the pool never share a target: every rename a
\* worker reports went to a path that did not exist when it was issued,
\* and no step of the pool loses a file of the tree.
C2_WorkersNeverShareTarget ==
    [][ /\ ContentBag(fs', Root) = ContentBag(fs, Root)
        /\ \A i \in NewLines :
             out'[i].k = "renamed" => ~DoesFileExist(fs, out'[i].b) ]_vars

\* Both workers are before the os.Rename of two different files to the
\* same new name.
C2_Witness ==
    /\ workerSt # <<>>
    /\ workerSt[1].st = "rename" /\ workerSt[2].st = "rename"
    /\ workerSt[1].file # workerSt[2].file
    /\ newNameOf(workerSt[1].file, workerSt[1].potentialName)
         = newNameOf(workerSt[2].file, workerSt[2].potentialName)

\* The workers inside a job function, and those that a panic has ended.
Busy == {w \in Workers : workerSt[w].st \in {"run", "rename", "retry"}}
Dead == {w \in Workers : workerSt[w].st = "dead"}

\* The jobs the sending goroutine has not handed over yet.
Unsent == Len(files) - idx + 1

\* The counter after wg.Add: the jobs that are not sent yet, those whose
\* function is running, and those whose function has panicked.
CounterCountsOpenJobs ==
    pc \in {"wait", "done"} =>
        /\ wg = Unsent + Cardinality(Busy) + Cardinality(Dead)
        /\ wg >= 0
        /\ Cardinality(Busy) <= numConcurrent
        /\ \A v, w \in Busy : v # w => workerSt[v].file # workerSt[w].file

\* A step of the pool takes at most the next job off the queue, hands it
\* to one worker that was receiving, and starts its function there; a
\* function starts in no other way, and the counter falls by one exactly
\* when one function returns.
OneWorkerPerJob ==
    pc = "wait" =>
        /\ idx' \in {idx, idx + 1}
        /\ files' = files
        /\ idx' = idx + 1 =>
              \E w \in Workers :
                  /\ workerSt[w].st = "idle"
                  /\ workerSt'[w] = WorkerState("run", files[idx], <<>>, 0)
                  /\ \A v \in Workers \ {w} : workerSt'[v] = workerSt[v]
        /\ \A w \in Workers :
              /\ (workerSt'[w].st = "run" /\ workerSt[w].st # "run") => idx' = idx + 1
              /\ workerSt[w].st = "dead" => workerSt'[w] = workerSt[w]
              /\ workerSt'[w].st \in {"rename", "retry"} => workerSt'[w].file = workerSt[w].file
        /\ wg' = wg - Cardinality({w \in Busy : workerSt'[w].st = "idle"})
        /\ Cardinality({w \in Busy : workerSt'[w].st = "idle"}) <= 1

\* C18: in the pool version every job is received by one worker and its
\* function is started once; never more than numConcurrent functions run
\* at a time; the counter of the wait group is never negative; and
\* wg.Wait returns only when every job has been received and the function
\* of every job has returned.
C18_PoolRunsEachJobOnce ==
    [][ /\ OneWorkerPerJob
        /\ CounterCountsOpenJobs'
        /\ pc' = "done" => (idx' = Len(files') + 1 /\ Busy' = {} /\ Dead' = {}) ]_vars

\* The pool has finished a batch of more jobs than it has workers.
C18_Witness ==
    /\ pc = "done"
    /\ version = "pool"
    /\ Len(files) > numConcurrent
    /\ wg = 0
    /\ Cardinality({i \in 1..Len(out) : out[i].k = "renamed"}) >= 2
    /\ \E i \in 1..Len(out) : out[i].k = "error"

\* The files the jobs of a batch are drawn from, one for each way a job
\* function can end: two renames to the same name (A, B), an error line
\* (K), a return without a line (J), a panic (M).
PoolFiles == {u \in Universe : u.c.id \in {"A", "B", "J", "K", "M"}}

\* The pool version on a batch of zero to MaxAlike jobs, more than there
\* are workers.
InitPoolBatch ==
    /\ version = "pool"
    /\ umask = Umask022
    /\ faults \in BOOLEAN
    /\ InitRun
    /\ NoWalk
    /\ workerSt = [w \in Workers |-> IdleWorker]
    /\ wg = 0
    /\ args = <<Root>>
    /\ \E S \in SUBSET PoolFiles :
         /\ Cardinality(S) <= MaxAlike
         /\ fs = MkTree(S, Perm644, FALSE, <<>>)

\* The goroutines are scheduled fairly: main at the barrier, the sending
\* goroutine and every worker take their next step when it stays possible.
\* A worker's next step is possible exactly while it runs a job function
\* (it is in Busy), so its weak fairness is written with that condition
\* in the place of ENABLED.
PoolFairness ==
    /\ WF_vars(PoolWait)
    /\ WF_vars(\E w \in Workers : Dispatch(w))
    /\ \A w \in Workers :
          \/ []<>(w \notin Busy)
          \/ []<><<WorkerRead(w) \/ WorkerRename(w) \/ WorkerRetry(w)>>_vars

SpecPoolBatch == InitPoolBatch /\ [][NextPool]_vars /\ PoolFairness

\* The jobs of the batch whose function panics: the type assertion on the
\* EXIF value fails.
PanicJobs ==
    {j \in 1..Len(files) : IsFile(fs, files[j]) /\ poolTime(fs, files[j]).res = "panic"}

\* wg.Wait has returned and main has printed the completion line.
BatchFinished ==
    /\ pc = "done"
    /\ wg = 0
    /\ out[Len(out)].k = "completed"

\* The batches without a panicking job finish.
BatchWithoutPanicFinishes ==
    (pc = "wait" /\ PanicJobs = {}) ~> BatchFinished

\* C19: in the pool version every batch finishes: once main waits at the
\* barrier, whatever the number of jobs and however each job ends (a
\* rename, an error line, or a panic the worker recovers from), every job
\* is eventually counted, wg.Wait returns and the completion line is
\* printed.
C19_BatchAlwaysFinishes ==
    (pc = "wait") ~> BatchFinished

\* The part of C12 the pool version is read for: a job on a decoded
\* picture that has neither DateTimeOriginal nor DateTime ends with an
\* error line for the file.
PoolReportsMissingField ==
    [][ \A w \in Workers :
          ( /\ workerSt[w].st = "run"
            /\ workerSt'[w].st # "run"
            /\ IsFile(fs, workerSt[w].file)
            /\ fs[workerSt[w].file].c.kind = "exif"
            /\ DOMAIN fs[workerSt[w].file].c.exif = {} )
          => \E i \in NewLines : out'[i].k = "error" /\ out'[i].a = workerSt[w].file ]_vars

(* ------------------------------------------------------------------ *)
(* The atom walker: getVideoCreationTimeMetadata                        *)
(* ------------------------------------------------------------------ *)

\* Most atoms before the moov atom in a stream.
MaxAtoms == 2

\* Most iterations of the scanning loop that are followed.
MaxReads == 5

\* The atom types, as their four bytes.
movieResourceAtomType == <<109, 111, 111, 118>>
movieHeaderAtomType == <<109, 118, 104, 100>>
referenceMovieAtomType == <<114, 109, 114, 97>>
compressedMovieAtomType == <<99, 109, 111, 118>>

\* A 32-bit or 64-bit number is kept as two limbs, hi * 65536 + lo with
\* 0 <= lo < 65536, so that no value leaves the integers TLC computes with.
Limbs(hi, lo) == [hi |-> hi, lo |-> lo]

\* appleEpochAdjustment = 2082844800 = 31781 * 65536 + 45184
appleEpochAdjustment == Limbs(31781, 45184)

\* Four bytes read least significant first.
LittleEndianUint32(b) == Limbs(b[4] * 256 + b[3], b[2] * 256 + b[1])

\* binary.BigEndian.Uint32 of four bytes.
BigEndianUint32(b) == Limbs(b[1] * 256 + b[2], b[3] * 256 + b[4])

\* int64(u) of a number that TLC's integers hold.
Int64(u) == u.hi * 65536 + u.lo

\* a - b in int64.
SubInt64(a, b) ==
    Limbs(a.hi - b.hi - (IF a.lo < b.lo THEN 1 ELSE 0), (a.lo - b.lo) % 65536)

\* (*os.File).Read(buf) at offset p: the bytes that are left, at most
\* len(buf); io.EOF only when none is left.  A short read fills the front
\* of buf and leaves the rest of it as it was.
Read(s, p, b) ==
    LET n == IF p >= Len(s) THEN 0
             ELSE IF Len(s) - p < 8 THEN Len(s) - p ELSE 8
    IN  [n |-> n,
         err |-> n = 0,
         buf |-> [i \in 1..8 |-> IF i <= n THEN s[p + i] ELSE b[i]],
         pos |-> p + n]

\* (*os.File).Seek(off, io.SeekCurrent) at offset p: an error when the new
\* offset would be negative; an offset past the end is accepted.
Seek(p, off) ==
    IF p + off < 0 THEN [err |-> TRUE, pos |-> p] ELSE [err |-> FALSE, pos |-> p + off]

\* What getVideoCreationTimeMetadata returns: the Unix seconds of the
\* instant, or an error.
Timestamp(t) == [ok |-> TRUE, t |-> t, err |-> ""]
WalkError(e) == [ok |-> FALSE, t |-> Limbs(0, 0), err |-> e]
NoResult == [ok |-> FALSE, t |-> Limbs(0, 0), err |-> "none"]

\* The walker returns.
Return(r) ==
    /\ wpc' = "done"
    /\ result' = r

\* One iteration of the scanning loop: read a header; leave the loop at
\* the moov atom; otherwise seek over the atom by its size field less the
\* eight bytes read.  The earlier version drops the error of Seek.
ScanStep ==
    /\ wpc = "scan"
    /\ reads < MaxReads
    /\ reads' = reads + 1
    /\ LET r == Read(stream, pos, buf)
           atomSize == BigEndianUint32(SubSeq(r.buf, 1, 4))
           sk == Seek(r.pos, Int64(atomSize) - 8)
       IN  IF r.err
           THEN /\ Return(WalkError("EOF"))
                /\ UNCHANGED <<pos, buf>>
           ELSE IF SubSeq(r.buf, 5, 8) = movieResourceAtomType
           THEN /\ wpc' = "child"
                /\ pos' = r.pos
                /\ buf' = r.buf
                /\ result' = result
           ELSE IF sk.err /\ checksSeek
           THEN /\ Return(WalkError("seek"))
                /\ pos' = r.pos
                /\ buf' = r.buf
           ELSE /\ pos' = sk.pos
                /\ buf' = r.buf
                /\ UNCHANGED <<wpc, result>>
    /\ UNCHANGED <<seqVars, poolVars, stream, shape, checksSeek>>

\* A dispatch that, at a header of another type, reads on for the mvhd
\* header instead of failing.
ChildStepSearching ==
    /\ wpc = "child"
    /\ LET r == Read(stream, pos, buf)
           atomType == SubSeq(r.buf, 5, 8)
       IN  IF r.err
           THEN /\ Return(WalkError("EOF"))
                /\ UNCHANGED <<pos, buf>>
           ELSE /\ pos' = r.pos
                /\ buf' = r.buf
                /\ IF atomType = movieHeaderAtomType
                   THEN wpc' = "time" /\ result' = result
                   ELSE UNCHANGED <<wpc, result>>
    /\ UNCHANGED <<seqVars, poolVars, stream, shape, checksSeek, reads>>

\* The read after the loop and the switch on the type of the first child
\* of the moov atom.
ChildStep ==
    /\ wpc = "child"
    /\ LET r == Read(stream, pos, buf)
           atomType == SubSeq(r.buf, 5, 8)
       IN  IF r.err
           THEN /\ Return(WalkError("EOF"))
                /\ UNCHANGED <<pos, buf>>
           ELSE /\ pos' = r.pos
                /\ buf' = r.buf
                /\ IF atomType = movieHeaderAtomType
                   THEN wpc' = "time" /\ result' = result
                   ELSE IF atomType = compressedMovieAtomType
                   THEN Return(WalkError("Compressed video"))
                   ELSE IF atomType = referenceMovieAtomType
                   THEN Return(WalkError("Reference video"))
                   ELSE Return(WalkError("Did not find movie header atom (mvhd)"))
    /\ UNCHANGED <<seqVars, poolVars, stream, shape, checksSeek, reads>>

\* The mvhd case: read version, flags and creation time, and return the
\* creation time less appleEpochAdjustment as Unix seconds.
TimeStep ==
    /\ wpc = "time"
    /\ LET r == Read(stream, pos, buf)
           appleEpoch == BigEndianUint32(SubSeq(r.buf, 5, 8))
       IN  IF r.err
           THEN /\ Return(WalkError("EOF"))
                /\ UNCHANGED <<pos, buf>>
           ELSE /\ pos' = r.pos
                /\ buf' = r.buf
                /\ Return(Timestamp(SubInt64(appleEpoch, appleEpochAdjustment)))
    /\ UNCHANGED <<seqVars, poolVars, stream, shape, checksSeek, reads>>

NextWalker == ScanStep \/ ChildStep \/ TimeStep

(* The streams the walker is run on. *)

\* The four bytes of a number, most significant first.
Bytes4(u) == <<u.hi \div 256, u.hi % 256, u.lo \div 256, u.lo % 256>>

\* An atom: its size field, its type and its payload.
Atom(type, payload) == [type |-> type, payload |-> payload]
AtomSize(a) == 8 + Len(a.payload)
AtomBytes(a) == Bytes4(Limbs(0, AtomSize(a))) \o a.type \o a.payload

\* The atoms that may come before the moov atom: free without a payload,
\* ftyp with four bytes, and mdat, whose payload reads as the header of a
\* moov atom.
PreAtoms ==
    { Atom(<<102, 114, 101, 101>>, <<>>),
      Atom(<<102, 116, 121, 112>>, <<113, 116, 32, 32>>),
      Atom(<<109, 100, 97, 116>>, <<0, 0, 0, 8>> \o movieResourceAtomType) }

PreSeqs == UNION {[1..k -> PreAtoms] : k \in 0..MaxAtoms}

RECURSIVE Concat(_)
Concat(ss) == IF ss = <<>> THEN <<>> ELSE Head(ss) \o Concat(Tail(ss))

\* The bytes of the atoms pre, and the offset behind the first j of them.
PreBytes(pre) == Concat([i \in 1..Len(pre) |-> AtomBytes(pre[i])])
Offset(pre, j) == Len(PreBytes(SubSeq(pre, 1, j)))

\* The moov atom with its first child: an mvhd atom of version and flags,
\* creation time and modification time, or a child that is a header only.
MoovBytes(child, ctime) ==
    IF child = movieHeaderAtomType
    THEN Bytes4(Limbs(0, 28)) \o movieResourceAtomType
           \o Bytes4(Limbs(0, 20)) \o child \o <<0, 0, 0, 0>> \o Bytes4(ctime) \o <<0, 0, 0, 1>>
    ELSE Bytes4(Limbs(0, 16)) \o movieResourceAtomType \o Bytes4(Limbs(0, 8)) \o child

\* The creation times: around zero, around appleEpochAdjustment, and the
\* largest.
CTimes == {Limbs(hi, lo) : hi \in {0, 31780, 31781, 65535}, lo \in {0, 45183, 45184, 65535}}

ChildTypes ==
    {movieHeaderAtomType, compressedMovieAtomType, referenceMovieAtomType, <<116, 114, 97, 107>>}

\* The offset behind the creation time of a stream with the atoms pre.
NeedLen(pre) == Offset(pre, Len(pre)) + 24

Shape(kind, pre, child, ctime, cut, bad) ==
    [kind |-> kind, pre |-> pre, child |-> child, ctime |-> ctime, cut |-> cut, bad |-> bad]

\* complete: atoms with correct sizes, then the moov atom.
\* truncated: a complete stream with an mvhd child cut before the end of
\*   its creation time.
\* badsize: correct atoms, then a free atom whose size field is below 8,
\*   then the moov atom.
\* late: a complete stream whose moov atom has a first child of another
\*   type, with an mvhd atom behind it.
Shapes ==
    {Shape("complete", pre, child, ctime, 0, 8) :
        pre \in PreSeqs, child \in ChildTypes \ {movieHeaderAtomType}, ctime \in {Limbs(0, 0)}}
    \cup {Shape("complete", pre, movieHeaderAtomType, ctime, 0, 8) :
            pre \in PreSeqs, ctime \in CTimes}
    \cup UNION {{Shape("truncated", pre, movieHeaderAtomType, ctime, cut, 8) :
                    cut \in 0..(NeedLen(pre) - 1), ctime \in {Limbs(0, 1), Limbs(65535, 65535)}} :
                pre \in PreSeqs}
    \cup {Shape("badsize", pre, movieHeaderAtomType, Limbs(31781, 45184), 0, bad) :
            pre \in PreSeqs, bad \in 0..7}
    \cup {Shape("late", pre, child, Limbs(31781, 45184), 0, 8) :
            pre \in PreSeqs, child \in ChildTypes \ {movieHeaderAtomType}}

\* The bytes of a stream of the shape sh.
StreamOf(sh) ==
    LET full == PreBytes(sh.pre)
                  \o (IF sh.kind = "badsize"
                      THEN Bytes4(Limbs(0, sh.bad)) \o <<102, 114, 101, 101>>
                      ELSE <<>>)
                  \o MoovBytes(sh.child, sh.ctime)
                  \o (IF sh.kind = "late"
                      THEN SubSeq(MoovBytes(movieHeaderAtomType, sh.ctime), 9, 28)
                      ELSE <<>>)
    IN  IF sh.kind = "truncated" THEN SubSeq(full, 1, sh.cut) ELSE full

\* No batch is running.
NoBatch ==
    /\ fs = MkTree({}, Perm644, FALSE, <<>>)
    /\ umask = Umask022
    /\ faults = FALSE
    /\ args = <<>>
    /\ version = "walker"
    /\ pc = "idle"
    /\ rootDir = <<>>
    /\ backupDirPath = <<>>
    /\ todo = <<>>
    /\ files = <<>>
    /\ idx = 0
    /\ out = <<>>
    /\ run = 1

\* getVideoCreationTimeMetadata is called on a stream at offset 0, in the
\* version that checks the error of Seek or in the earlier one.
InitWalker ==
    /\ NoBatch
    /\ NoPool
    /\ shape \in Shapes
    /\ stream = StreamOf(shape)
    /\ checksSeek \in BOOLEAN
    /\ pos = 0
    /\ buf = <<0, 0, 0, 0, 0, 0, 0, 0>>
    /\ wpc = "scan"
    /\ reads = 0
    /\ result = NoResult

SpecWalker == InitWalker /\ [][NextWalker]_vars

\* a + b of two numbers in limbs.
AddLimbs(a, b) == Limbs(a.hi + b.hi + (a.lo + b.lo) \div 65536, (a.lo + b.lo) % 65536)

\* C9: on a stream of k atoms with correct sizes followed by a moov atom
\* whose first child is mvhd with creation time C, the scanning loop
\* stands at the start of an atom after each iteration (it has skipped
\* each atom by its size), the moov header is found behind the k atoms,
\* and the walker returns the instant whose Unix seconds plus
\* 2,082,844,800 are C.
C9_WalkerReturnsCreationTime ==
    (wpc # "idle" /\ shape.kind = "complete" /\ shape.child = movieHeaderAtomType) =>
        /\ wpc = "scan" => reads <= Len(shape.pre) /\ pos = Offset(shape.pre, reads)
        /\ wpc = "child" => reads = Len(shape.pre) + 1 /\ pos = NeedLen(shape.pre) - 16
        /\ wpc = "time" => pos = NeedLen(shape.pre) - 8
        /\ wpc = "done" =>
              /\ result.ok
              /\ result.t.lo \in 0..65535
              /\ AddLimbs(result.t, appleEpochAdjustment) = shape.ctime

\* The walker has returned the timestamp of a stream with two atoms
\* before the moov atom, one of them the mdat atom whose payload reads as
\* a moov header, and the largest creation time.
C9_Witness ==
    /\ wpc = "done"
    /\ shape.kind = "complete"
    /\ Len(shape.pre) = 2
    /\ \E i \in 1..2 : shape.pre[i].type = <<109, 100, 97, 116>>
    /\ shape.child = movieHeaderAtomType
    /\ shape.ctime = Limbs(65535, 65535)
    /\ result = Timestamp(Limbs(33754, 20351))

\* The parts of C10: a truncated stream makes the walker return an error;
\* so does a size field below 8, with the iteration that reads it.
TruncatedStreamFails ==
    (wpc = "done" /\ shape.kind = "truncated") => ~result.ok

BadSizeFails ==
    (wpc # "idle" /\ shape.kind = "badsize" /\ reads > Len(shape.pre)) =>
        (wpc = "done" /\ ~result.ok)

\* C10: a stream that ends before the creation time has been read, at any
\* offset, and a stream with a non-moov atom whose size field is below 8,
\* make the walker return an error; it returns no timestamp and does not
\* go on scanning.
C10_MalformedStreamFails == TruncatedStreamFails /\ BadSizeFails

\* The three errors of the switch on the type of the header behind moov.
CompressedVideo == WalkError("Compressed video")
ReferenceVideo == WalkError("Reference video")
HeaderNotFound == WalkError("Did not find movie header atom (mvhd)")

\* The moov header has been read and the eight bytes behind it are in the
\* stream: streams that are complete, with or without an mvhd atom behind
\* a first child of another type.
ChildInStream == wpc # "idle" /\ shape.kind \in {"complete", "late"}

\* C11: once the moov header has been found the walker reads the header
\* right behind it and decides on its type alone: mvhd leads to a
\* timestamp, cmov to the compressed-video error, rmra to the
\* reference-video error, every other type to the header-not-found error,
\* also when an mvhd atom follows; the three errors differ from each other
\* and none comes with a timestamp.
C11_DispatchOnNextHeader ==
    /\ Cardinality({CompressedVideo, ReferenceVideo, HeaderNotFound}) = 3
    /\ (wpc = "done" /\ result \in {CompressedVideo, ReferenceVideo, HeaderNotFound}) => ~result.ok
    /\ ChildInStream =>
          /\ wpc = "child" => pos = Offset(shape.pre, Len(shape.pre)) + 8
          /\ wpc = "time" => shape.child = <<109, 118, 104, 100>>
          /\ wpc = "done" =>
                /\ pos = Offset(shape.pre, Len(shape.pre)) + (IF result.ok THEN 24 ELSE 16)
                /\ result.ok <=> shape.child = <<109, 118, 104, 100>>
                /\ (result = CompressedVideo) <=> shape.child = <<99, 109, 111, 118>>
                /\ (result = ReferenceVideo) <=> shape.child = <<114, 109, 114, 97>>
                /\ (result = HeaderNotFound) <=>
                      shape.child \notin {<<109, 118, 104, 100>>, <<99, 109, 111, 118>>,
                                          <<114, 109, 114, 97>>}

\* The walker has failed with the header-not-found error on a stream whose
\* moov atom holds a trak header first and an mvhd atom behind it.
C11_Witness ==
    /\ wpc = "done"
    /\ shape.kind = "late"
    /\ shape.child = <<116, 114, 97, 107>>
    /\ Len(shape.pre) = 2
    /\ result = HeaderNotFound
    /\ SubSeq(stream, pos + 5, pos + 8) = movieHeaderAtomType

\* An iteration of the scanning loop after which the loop goes on.
Iterates == wpc = "scan" /\ reads' = reads + 1 /\ wpc' = "scan"

\* An iteration reads the header at pos and the next one the header at
\* pos': on the streams without a size field of 0 every iteration that
\* goes on moves the cursor forward, so the loop ends after at most one
\* iteration for each byte of the stream and one more.
ScanAdvancesOnPositiveSize ==
    [][ (Iterates /\ ~(shape.kind = "badsize" /\ shape.bad = 0)) => pos' > pos ]_vars

\* At a header with the size field 0 the loop stays where it is: after
\* every further iteration the cursor is at that header again.
ZeroSizeRepeats ==
    (wpc # "idle" /\ shape.kind = "badsize" /\ shape.bad = 0 /\ reads > Len(shape.pre)) =>
        (wpc = "scan" /\ pos = Offset(shape.pre, Len(shape.pre)))

\* On every other stream the loop has ended before the iterations that are
\* followed are used up.
OnlyZeroSizeRunsOn ==
    (wpc = "scan" /\ reads = MaxReads) => (shape.kind = "badsize" /\ shape.bad = 0)

\* C20: the scanning loop ends on every finite stream, whatever the size
\* fields of its headers, 0 and the other values below 8 included: an
\* iteration either leaves the loop (at the moov header or with an error)
\* or moves the cursor forward, so that no header is read a second time.
C20_ScanLoopTerminates ==
    [][ (wpc = "scan" /\ reads' = reads + 1) => (wpc' # "scan" \/ pos' > pos) ]_vars

\* The backup root held nothing before this run: it is the first run and
\* no file of an earlier run lies below the backup root.
FreshBackupRoot ==
    /\ run = 1
    /\ Join(backupPathAbs(Root), StaleName) \notin DOMAIN fs

\* After a successful snapshot into a backup root that held nothing the
\* counts of filtered files are equal; in every case the backup holds at
\* least as many as the root.
SnapshotCountsOnFreshRoot ==
    SnapshotDone =>
        /\ FilteredCount(fs, backupDirPath) >= FilteredCount(fs, Root)
        /\ FreshBackupRoot => FilteredCount(fs, backupDirPath) = FilteredCount(fs, Root)

\* A batch that started with a file of an earlier run below the backup
\* root ends, when the counting succeeds, with the backup retained.
StaleBackupIsRetained ==
    [][ ( /\ pc = "loop" /\ pc' = "done"
          /\ Join(backupPathAbs(Root), StaleName) \in DOMAIN fs
          /\ out'[Len(out')].k # "count-error" )
        => out'[Len(out')].k = "backup-retained" ]_vars

\* C21: right after a successful snapshot the number of filtered files
\* below the backup root equals the number below the root, whatever the
\* filesystem was before, also when the backup root exists already and
\* holds media files that are not in the root.
C21_SnapshotCountsEqual ==
    SnapshotDone => FilteredCount(fs, backupDirPath) = FilteredCount(fs, Root)

\* The filesystem g is f after one file with a filtered extension below
\* the root was renamed to a path below the root that did not exist and
\* has a filtered extension; nothing else differs.
RenamesOneFiltered(f, g) ==
    \E q \in FilesUnder(f, Root), n \in FilesUnder(g, Root) :
        /\ n \notin DOMAIN f
        /\ DOMAIN g = (DOMAIN f \ {q}) \cup {n}
        /\ g[n] = f[q]
        /\ \A x \in DOMAIN f \ {q} : g[x] = f[x]
        /\ LowerExt(q) \in MediaExts
        /\ LowerExt(n) \in MediaExts

\* An iteration of the loop of main leaves the filesystem as it is or
\* renames one filtered file as above, so the counts of filtered files
\* below the root and below the backup root stay what they were.
LoopKeepsCounts ==
    [][ (pc = "loop" /\ idx' = idx + 1) =>
          /\ fs' = fs \/ RenamesOneFiltered(fs, fs')
          /\ FilteredCount(fs', Root) = FilteredCount(fs, Root)
          /\ FilteredCount(fs', backupDirPath) = FilteredCount(fs, backupDirPath) ]_vars

\* With equal counts the end of main does not retain the backup on a
\* mismatch.
EqualCountsDiscard ==
    [][ (pc = "loop" /\ pc' = "done" /\ FilteredCount(fs, Root) = FilteredCount(fs, backupDirPath))
        => out'[Len(out')].k \in {"backup-removed", "count-error"} ]_vars

\* A backup is retained on a mismatch only in a batch that started with a
\* file of an earlier run below the backup root.
KeepOnlyOnStaleBackup ==
    (pc = "done" /\ out[Len(out)].k = "backup-retained") =>
        Join(backupPathAbs(Root), StaleName) \in DOMAIN fs

\* Layouts a second argument can give: the default one behind the text
\* "../", and behind the text "sub/".
EscapeLayout == <<Dot, Dot, Sep>> \o DefaultLayout
SubLayout == SubDir \o <<Sep>> \o DefaultLayout

\* The files the trees of the runs with a layout are drawn from.
LayoutFiles == {u \in Universe : u.c.id \in {"A", "D", "H", "L", "S"}}

\* The program of src/main.go on a tree of at most MaxFiles files, without
\* a second argument or with one of the layouts above; no backup
\* directory of an earlier run, no I/O error.
InitLayout ==
    /\ version = "abs"
    /\ umask = Umask022
    /\ faults = FALSE
    /\ InitRun
    /\ NoPool
    /\ NoWalk
    /\ args \in {<<Root>>, <<Root, EscapeLayout>>, <<Root, SubLayout>>}
    /\ \E S \in SUBSET LayoutFiles :
         /\ Cardinality(S) <= MaxFiles
         /\ fs = MkTree(S, Perm644, FALSE, <<>>)

SpecLayout == InitLayout /\ [][Next]_vars

\* What C22 says of an iteration of the loop and of the end of main.
KeepsCounts ==
    /\ (pc = "loop" /\ idx' = idx + 1) =>
          /\ fs' = fs \/ RenamesOneFiltered(fs, fs')
          /\ FilteredCount(fs', Root) = FilteredCount(fs, Root)
          /\ FilteredCount(fs', backupDirPath) = FilteredCount(fs, backupDirPath)
    /\ (pc = "loop" /\ pc' = "done" /\ FreshBackupRoot) =>
          out'[Len(out')].k # "backup-retained"

\* With the default layout, and with a layout that names a directory
\* below the root, the batch keeps the counts and removes the backup.
DefaultLayoutKeepsCounts ==
    [][ args # <<Root, EscapeLayout>> => KeepsCounts ]_vars

\* C22: the number of filtered files below the root is the same before
\* and after the batch: an iteration of the loop leaves the tree as it is
\* or renames one filtered file, below the root, to a path that did not
\* exist and has a filtered extension; so a batch that began with equal
\* counts in the root and the backup (the first run on a root without a
\* backup directory) never ends with the backup retained on a mismatch.
C22_BatchKeepsFilteredCount == [][KeepsCounts]_vars

=============================================================================
